---------------------------- MODULE Spec2Model ----------------------------
(***************************************************************************)
(* A model of the bntx crate: the BNTX binary model, its Writer and Reader *)
(* at the byte level, construction from raw pixels (from_image_data), the  *)
(* block-linear swizzle it relies on, and the DDS bridge.                   *)
(*                                                                         *)
(* Bytes are the integers 0..255 and a file is a sequence of bytes; file   *)
(* offsets are 0-based as in the source, so the byte at offset p is        *)
(* file[p + 1].  A string is the sequence of the bytes of its UTF-8 form.  *)
(***************************************************************************)
EXTENDS Integers, Sequences, FiniteSets, TLC

(***************************************************************************)
(* Bounds of the model.                                                    *)
(***************************************************************************)
MaxMip == 3
MaxDepth == 2

(***************************************************************************)
(* Layout constants, lib.rs lines 20-35, 463, 473, 792.                    *)
(***************************************************************************)
BNTX_HEADER_SIZE == 32
NX_HEADER_SIZE == 40
HEADER_SIZE == BNTX_HEADER_SIZE + NX_HEADER_SIZE
MEM_POOL_SIZE == 336
DATA_PTR_SIZE == 8

\* the start of the string section with the data pointer left out
START_OF_STR_SECTION_no_pointer == HEADER_SIZE + MEM_POOL_SIZE

START_OF_STR_SECTION == HEADER_SIZE + MEM_POOL_SIZE + DATA_PTR_SIZE
STR_HEADER_SIZE == 20
EMPTY_STR_SIZE == 4
FILENAME_STR_OFFSET == START_OF_STR_SECTION + STR_HEADER_SIZE + EMPTY_STR_SIZE
BRTD_SECTION_START == 4080
SIZE_OF_BRTD == 16
START_OF_TEXTURE_DATA == BRTD_SECTION_START + SIZE_OF_BRTD
SIZE_OF_RELOC_SECTION == 8 + (4 * 4)
SIZE_OF_RELOC_ENTRY == 4 + 2 + (1 * 2)
SIZE_OF_BRTI == 160
RESERVED_SIZE == 512

(***************************************************************************)
(* Generic helpers.                                                        *)
(***************************************************************************)
Max(a, b) == IF a >= b THEN a ELSE b
Min(a, b) == IF a <= b THEN a ELSE b

None == [some |-> FALSE, val |-> 0]
Some(x) == [some |-> TRUE, val |-> x]

Zeros(n) == [i \in 1..n |-> 0]

RECURSIVE Pow2(_)
Pow2(n) == IF n <= 0 THEN 1 ELSE 2 * Pow2(n - 1)

\* x >> s on a usize whose value fits the model's integers
Shr(x, s) == x \div Pow2(s)

RECURSIVE SumSeq(_)
SumSeq(s) == IF s = <<>> THEN 0 ELSE Head(s) + SumSeq(Tail(s))

RECURSIVE Flatten(_)
Flatten(ss) == IF ss = <<>> THEN <<>> ELSE Head(ss) \o Flatten(Tail(ss))

\* fn align(x, n): (x + n - 1) & !(n - 1), n a power of two
align(x, n) == ((x + n - 1) \div n) * n

(***************************************************************************)
(* SurfaceFormat, lib.rs lines 664-735.                                    *)
(***************************************************************************)
SurfaceFormat ==
    { "R8Unorm", "R8G8B8A8Unorm", "R8G8B8A8Srgb", "B8G8R8A8Unorm",
      "B8G8R8A8Srgb", "BC1Unorm", "BC1Srgb", "BC2Unorm", "BC2Srgb",
      "BC3Unorm", "BC3Srgb", "BC4Unorm", "BC4Snorm", "BC5Unorm", "BC5Snorm",
      "BC6Sfloat", "BC6Ufloat", "BC7Unorm", "BC7Srgb" }

\* the repr(u32) wire code of each format
FormatCode(f) ==
    CASE f = "R8Unorm" -> 513
      [] f = "R8G8B8A8Unorm" -> 2817
      [] f = "R8G8B8A8Srgb" -> 2822
      [] f = "B8G8R8A8Unorm" -> 3073
      [] f = "B8G8R8A8Srgb" -> 3078
      [] f = "BC1Unorm" -> 6657
      [] f = "BC1Srgb" -> 6662
      [] f = "BC2Unorm" -> 6913
      [] f = "BC2Srgb" -> 6918
      [] f = "BC3Unorm" -> 7169
      [] f = "BC3Srgb" -> 7174
      [] f = "BC4Unorm" -> 7425
      [] f = "BC4Snorm" -> 7426
      [] f = "BC5Unorm" -> 7681
      [] f = "BC5Snorm" -> 7682
      [] f = "BC6Sfloat" -> 7941
      [] f = "BC6Ufloat" -> 7946
      [] f = "BC7Unorm" -> 8193
      [] f = "BC7Srgb" -> 8198

bytes_per_pixel(f) ==
    CASE f = "R8Unorm" -> 1
      [] f \in {"R8G8B8A8Unorm", "R8G8B8A8Srgb", "B8G8R8A8Unorm", "B8G8R8A8Srgb"} -> 4
      [] f \in {"BC1Unorm", "BC1Srgb", "BC4Unorm", "BC4Snorm"} -> 8
      [] OTHER -> 16

Uncompressed == {"R8Unorm", "R8G8B8A8Unorm", "R8G8B8A8Srgb", "B8G8R8A8Unorm", "B8G8R8A8Srgb"}

block_dim(f) ==
    IF f \in Uncompressed
    THEN [width |-> 1, height |-> 1, depth |-> 1]
    ELSE [width |-> 4, height |-> 4, depth |-> 1]


(***************************************************************************)
(* tegra_swizzle, as called from lib.rs lines 10-14, 74-84, 170, 183-193   *)
(* and 362-372.  A GOB is 64 x 8 bytes; a block is one GOB wide,           *)
(* block_height GOBs high and block_depth GOBs deep.  BlockHeight values   *)
(* are the integers 1, 2, 4, 8, 16, 32.                                    *)
(***************************************************************************)
GOB_WIDTH_IN_BYTES == 64
GOB_HEIGHT_IN_BYTES == 8
GOB_SIZE_IN_BYTES == 512

div_round_up(x, d) == (x + d - 1) \div d

round_up(x, n) == ((x + n - 1) \div n) * n

block_height_mip0(height) ==
    LET height_and_half == height + (height \div 2)
    IN  IF height_and_half >= 128 THEN 16
        ELSE IF height_and_half >= 64 THEN 8
        ELSE IF height_and_half >= 32 THEN 4
        ELSE IF height_and_half >= 16 THEN 2
        ELSE 1

RECURSIVE mip_block_height(_, _)
mip_block_height(mip_height, block_height) ==
    IF mip_height <= (block_height \div 2) * 8 /\ block_height > 1
    THEN mip_block_height(mip_height, block_height \div 2)
    ELSE block_height

block_depth(depth) ==
    LET depth_and_half == depth + (depth \div 2)
    IN  IF depth_and_half >= 16 THEN 16
        ELSE IF depth_and_half >= 8 THEN 8
        ELSE IF depth_and_half >= 4 THEN 4
        ELSE IF depth_and_half >= 2 THEN 2
        ELSE 1

RECURSIVE mip_block_depth(_, _)
mip_block_depth(mip_depth, gob_depth) ==
    IF mip_depth <= gob_depth \div 2 /\ gob_depth > 1
    THEN mip_block_depth(mip_depth, gob_depth \div 2)
    ELSE gob_depth

width_in_gobs(width, bpp) == div_round_up(width * bpp, GOB_WIDTH_IN_BYTES)

height_in_blocks(height, block_height) ==
    div_round_up(height, block_height * GOB_HEIGHT_IN_BYTES)

\* swizzle::swizzled_mip_size: dimensions in blocks of the format
swizzled_mip_size(width, height, depth, block_height, bpp) ==
    LET height_in_gobs == height_in_blocks(height, block_height) * block_height
        depth_in_gobs == round_up(depth, block_depth(depth))
    IN  width_in_gobs(width, bpp) * height_in_gobs * depth_in_gobs * GOB_SIZE_IN_BYTES

deswizzled_mip_size(width, height, depth, bpp) == width * height * depth * bpp

slice_size(block_height, bdepth, image_width_in_gobs, height) ==
    bdepth * GOB_SIZE_IN_BYTES * block_height * image_width_in_gobs
        * height_in_blocks(height, block_height)

gob_address_z(z, block_height, bdepth, slice) ==
    ((z \div bdepth) * slice) + ((z % bdepth) * GOB_SIZE_IN_BYTES * block_height)

gob_address_y(y, block_height_in_bytes, block_size_in_bytes, image_width_in_gobs) ==
    LET block_y == y \div block_height_in_bytes
        block_inner_row == (y % block_height_in_bytes) \div GOB_HEIGHT_IN_BYTES
    IN  block_y * block_size_in_bytes * image_width_in_gobs
            + block_inner_row * GOB_SIZE_IN_BYTES

gob_address_x(x, block_size_in_bytes) ==
    (x \div GOB_WIDTH_IN_BYTES) * block_size_in_bytes

gob_offset(x, y) ==
    ((x % 64) \div 32) * 256 + ((y % 8) \div 2) * 64 + ((x % 32) \div 16) * 32
        + (y % 2) * 16 + (x % 16)

\* the swizzled offset of byte x of row y of slice z of one mip level
swizzled_offset(x, y, z, width, height, block_height, bdepth, bpp) ==
    LET wgobs == width_in_gobs(width, bpp)
        block_size_in_bytes == GOB_SIZE_IN_BYTES * block_height * bdepth
    IN  gob_address_z(z, block_height, bdepth, slice_size(block_height, bdepth, wgobs, height))
            + gob_address_y(y, GOB_HEIGHT_IN_BYTES * block_height, block_size_in_bytes, wgobs)
            + gob_address_x(x, block_size_in_bytes)
            + gob_offset(x, y)

\* the linear offset of the same byte
linear_offset(x, y, z, width, height, bpp) == ((z * height + y) * width * bpp) + x

\* the byte coordinates (x, y, z) whose swizzled offset can be a: a taken apart
\* into slice, block, GOB and offset within the GOB
gob_coords(a, width, height, block_height, bdepth, bpp) ==
    LET wgobs == width_in_gobs(width, bpp)
        block_size_in_bytes == GOB_SIZE_IN_BYTES * block_height * bdepth
        slice == slice_size(block_height, bdepth, wgobs, height)
        in_slice == a % slice
        block_index == in_slice \div block_size_in_bytes
        in_block == in_slice % block_size_in_bytes
        in_column == in_block % (GOB_SIZE_IN_BYTES * block_height)
        o == in_column % GOB_SIZE_IN_BYTES
    IN  [x |-> (block_index % wgobs) * GOB_WIDTH_IN_BYTES
                 + (o \div 256) * 32 + ((o \div 32) % 2) * 16 + (o % 16),
         y |-> (block_index \div wgobs) * GOB_HEIGHT_IN_BYTES * block_height
                 + (in_column \div GOB_SIZE_IN_BYTES) * GOB_HEIGHT_IN_BYTES
                 + ((o \div 64) % 4) * 2 + ((o \div 16) % 2),
         z |-> (a \div slice) * bdepth + (in_block \div (GOB_SIZE_IN_BYTES * block_height))]

\* swizzle_inner::<false>: the swizzled bytes of one mip level.  The byte at swizzled
\* offset a is the source byte (x, y, z) with swizzled_offset(x, y, z) = a, and 0 where
\* no byte of the level maps to a (the destination starts zeroed)
swizzle_mip(width, height, depth, block_height, bdepth, bpp, src, src_off) ==
    [k \in 1..swizzled_mip_size(width, height, depth, block_height, bpp) |->
        LET c == gob_coords(k - 1, width, height, block_height, bdepth, bpp)
        IN  IF /\ c.x < width * bpp
               /\ c.y < height
               /\ c.z < depth
               /\ swizzled_offset(c.x, c.y, c.z, width, height, block_height, bdepth, bpp) = k - 1
            THEN src[src_off + linear_offset(c.x, c.y, c.z, width, height, bpp) + 1]
            ELSE 0]

\* swizzle_inner::<true>: the linear bytes of one mip level read out of src (at src_off)
deswizzle_mip(width, height, depth, block_height, bdepth, bpp, src, src_off) ==
    [i \in 1..deswizzled_mip_size(width, height, depth, bpp) |->
        LET li == i - 1
            row_bytes == width * bpp
            x == li % row_bytes
            y == (li \div row_bytes) % height
            z == li \div (row_bytes * height)
        IN  src[src_off + swizzled_offset(x, y, z, width, height, block_height, bdepth, bpp) + 1]]

\* surface::align_layer_size with depth_in_gobs = 1
align_layer_size(layer_size, height, depth, block_height_0) ==
    LET gob_height == mip_block_height(height, block_height_0)
        block_of_gobs_size == gob_height * GOB_SIZE_IN_BYTES
        size_in_blocks_of_gobs == layer_size \div block_of_gobs_size
    IN  IF layer_size # size_in_blocks_of_gobs * block_of_gobs_size
        THEN (size_in_blocks_of_gobs + 1) * block_of_gobs_size
        ELSE layer_size

\* the dimensions of mip level mip in blocks: max(div_round_up(dim >> mip, block), 1)
mip_dim(dim, mip, block) == Max(div_round_up(Shr(dim, mip), block), 1)

\* the block height the surface functions use for mip 0: 3D surfaces use one GOB
surface_block_height(depth, block_height) == IF depth = 1 THEN block_height ELSE 1

\* the swizzled size of mips mip..mipmap_count-1 of one layer
RECURSIVE swizzled_mips_size(_, _, _, _, _, _, _, _)
swizzled_mips_size(mip, width, height, depth, bdim, block_height_0, bpp, mipmap_count) ==
    IF mip >= mipmap_count THEN 0
    ELSE LET mh == mip_dim(height, mip, bdim.height)
         IN  swizzled_mip_size(mip_dim(width, mip, bdim.width), mh,
                               mip_dim(depth, mip, bdim.depth),
                               mip_block_height(mh, block_height_0), bpp)
             + swizzled_mips_size(mip + 1, width, height, depth, bdim, block_height_0, bpp, mipmap_count)

RECURSIVE deswizzled_mips_size(_, _, _, _, _, _, _)
deswizzled_mips_size(mip, width, height, depth, bdim, bpp, mipmap_count) ==
    IF mip >= mipmap_count THEN 0
    ELSE deswizzled_mip_size(mip_dim(width, mip, bdim.width), mip_dim(height, mip, bdim.height),
                             mip_dim(depth, mip, bdim.depth), bpp)
         + deswizzled_mips_size(mip + 1, width, height, depth, bdim, bpp, mipmap_count)

swizzled_surface_size(width, height, depth, bdim, block_height, bpp, mipmap_count, layer_count) ==
    LET bh0 == surface_block_height(depth, block_height)
        mip_size == swizzled_mips_size(0, width, height, depth, bdim, bh0, bpp, mipmap_count)
    IN  IF layer_count > 1
        THEN align_layer_size(mip_size, height, depth, bh0) * layer_count
        ELSE mip_size

deswizzled_surface_size(width, height, depth, bdim, bpp, mipmap_count, layer_count) ==
    deswizzled_mips_size(0, width, height, depth, bdim, bpp, mipmap_count) * layer_count

\* Result values of the fallible operations
Ok(v) == [res |-> "Ok", val |-> v]
Err == [res |-> "Err", val |-> <<>>]
Panic == [res |-> "Panic", val |-> <<>>]

\* surface::swizzle_surface_inner::<false>: the swizzled bytes of levels
\* k..(layer_count*mipmap_count - 1), level k being mip (k % mipmap_count) of layer
\* (k / mipmap_count); dst_off is the offset the level is written at
RECURSIVE swizzle_levels(_, _, _, _, _, _, _, _, _, _, _, _)
swizzle_levels(k, width, height, depth, bdim, bh0, bpp, mipmap_count, layer_count, src, src_off, dst_off) ==
    IF k >= layer_count * mipmap_count THEN <<>>
    ELSE LET mip == k % mipmap_count
             mw == mip_dim(width, mip, bdim.width)
             mh == mip_dim(height, mip, bdim.height)
             md == mip_dim(depth, mip, bdim.depth)
             mbh == mip_block_height(mh, bh0)
             mbd == mip_block_depth(md, block_depth(depth))
             end_dst == dst_off + swizzled_mip_size(mw, mh, md, mbh, bpp)
             next_dst == IF mip = mipmap_count - 1 /\ layer_count > 1
                         THEN align_layer_size(end_dst, height, depth, bh0)
                         ELSE end_dst
         IN  swizzle_mip(mw, mh, md, mbh, mbd, bpp, src, src_off)
             \o Zeros(next_dst - end_dst)
             \o swizzle_levels(k + 1, width, height, depth, bdim, bh0, bpp, mipmap_count,
                    layer_count, src, src_off + deswizzled_mip_size(mw, mh, md, bpp),
                    next_dst)

\* surface::swizzle_surface_inner::<true>: the linear bytes of levels k..
RECURSIVE deswizzle_levels(_, _, _, _, _, _, _, _, _, _, _)
deswizzle_levels(k, width, height, depth, bdim, bh0, bpp, mipmap_count, layer_count, src, src_off) ==
    IF k >= layer_count * mipmap_count THEN <<>>
    ELSE LET mip == k % mipmap_count
             mw == mip_dim(width, mip, bdim.width)
             mh == mip_dim(height, mip, bdim.height)
             md == mip_dim(depth, mip, bdim.depth)
             mbh == mip_block_height(mh, bh0)
             mbd == mip_block_depth(md, block_depth(depth))
             next_src == src_off + swizzled_mip_size(mw, mh, md, mbh, bpp)
             last_mip == mip = mipmap_count - 1
         IN  deswizzle_mip(mw, mh, md, mbh, mbd, bpp, src, src_off)
             \o deswizzle_levels(k + 1, width, height, depth, bdim, bh0, bpp, mipmap_count,
                    layer_count, src,
                    IF last_mip /\ layer_count > 1
                    THEN align_layer_size(next_src, height, depth, bh0)
                    ELSE next_src)

\* the surface is rejected: a zero dimension or more mip levels than u32::BITS.
\* The arguments are u32 widened to usize, held as the u32 they were.
invalid_surface(width, height, depth, bpp, mipmap_count) ==
    width = 0 \/ height = 0 \/ depth = 0 \/ bpp = 0 \/ mipmap_count < 0 \/ mipmap_count > 32

\* One mip level of one layer holds more than len bytes, because it has more than
\* len blocks along one dimension, as it has for every dimension of 2^31 or more:
\* a level holds a byte or more for each block of each dimension.
level_exceeds(width, height, depth, bdim, len) ==
    \/ width < 0 \/ div_round_up(width, bdim.width) > len
    \/ height < 0 \/ div_round_up(height, bdim.height) > len
    \/ depth < 0 \/ div_round_up(depth, bdim.depth) > len

\* more than len layers, as for every layer count of 2^31 or more
layers_exceed(layer_count, len) == layer_count < 0 \/ layer_count > len

\* surface::swizzle_surface: Ok(swizzled bytes), or Err (a SwizzleError).  The
\* source must hold the linear size of the surface, mip levels times layers, which
\* it does not when a level or the layers alone exceed it.
swizzle_surface(width, height, depth, source, bdim, block_height, bpp, mipmap_count, layer_count) ==
    IF invalid_surface(width, height, depth, bpp, mipmap_count) THEN Err
    ELSE IF mipmap_count # 0 /\ layer_count # 0
            /\ (level_exceeds(width, height, depth, bdim, Len(source))
                   \/ layers_exceed(layer_count, Len(source))) THEN Err
    ELSE IF Len(source) < deswizzled_surface_size(width, height, depth, bdim, bpp,
                                                  mipmap_count, layer_count) THEN Err
    ELSE Ok(swizzle_levels(0, width, height, depth, bdim,
                surface_block_height(depth, block_height), bpp, mipmap_count, layer_count,
                source, 0, 0))

\* surface::deswizzle_surface: Ok(linear bytes), or Err (a SwizzleError).  The
\* source must hold the swizzled size of the surface: that of the mip levels of a
\* layer, times the layers when there are several.
deswizzle_surface(width, height, depth, source, bdim, block_height, bpp, mipmap_count, layer_count) ==
    IF invalid_surface(width, height, depth, bpp, mipmap_count) THEN Err
    ELSE IF mipmap_count # 0
            /\ (level_exceeds(width, height, depth, bdim, Len(source))
                   \/ layers_exceed(layer_count, Len(source))) THEN Err
    ELSE IF Len(source) < swizzled_surface_size(width, height, depth, bdim, block_height, bpp,
                                                mipmap_count, layer_count) THEN Err
    ELSE Ok(deswizzle_levels(0, width, height, depth, bdim,
                surface_block_height(depth, block_height), bpp, mipmap_count, layer_count,
                source, 0))

(***************************************************************************)
(* Integers.  TLC evaluates with integers of 32 bits, so the unsigned      *)
(* integers of the code are held as follows.  A u8 or a u16 is             *)
(* its value.  A u32 is the integer with the same 32 bits: its value below *)
(* 2^31, and its value - 2^32 from 2^31 on, so that distinct u32 stay      *)
(* distinct and are encoded as the bytes they were decoded from.  A u64 is *)
(* the record [hi, lo] of its two u32 halves.  A usize the model computes  *)
(* (a length, or an offset made of lengths) is below 2^31 and is its value.*)
(***************************************************************************)
AsU8(x) == x % 256
AsU16(x) == x % 65536

\* `x as u64` for a usize x of the model
U64(x) == [hi |-> 0, lo |-> x]

\* a < b for two u32
U32Lt(a, b) == IF (a < 0) = (b < 0) THEN a < b ELSE b < 0

\* the two 16-bit halves of a u32, and the u32 of two halves
Hi16(v) == (v \div 65536) % 65536
Lo16(v) == v % 65536
U32Of(hi, lo) == (IF hi >= 32768 THEN hi - 65536 ELSE hi) * 65536 + lo

\* an offset past the end of every file of the model
Far == 1073741824

\* the stream position a u64 names: its value, or Far for a value of 2^30 or more
\* (a seek to it succeeds, and every read there is at the end of the stream)
At(v) == IF v.hi = 0 /\ v.lo >= 0 /\ v.lo < Far THEN v.lo ELSE Far

\* byte i (1 = least significant) of a u8, u16 or u32 v
ByteOf(v, i) == (v \div Pow2(8 * (i - 1))) % 256

\* the n bytes (n <= 4) of the integer v in byte order e
EncInt(v, n, e) ==
    [i \in 1..n |-> IF e = "Little" THEN ByteOf(v, i) ELSE ByteOf(v, n + 1 - i)]

\* the n bytes of v in byte order e: of a u64 when n = 8, of a u8, u16 or u32 otherwise
Enc(v, n, e) ==
    IF n = 8
    THEN IF e = "Little" THEN EncInt(v.lo, 4, e) \o EncInt(v.hi, 4, e)
         ELSE EncInt(v.hi, 4, e) \o EncInt(v.lo, 4, e)
    ELSE EncInt(v, n, e)

RECURSIVE EncAll(_, _, _)
EncAll(vs, n, e) == IF vs = <<>> THEN <<>> ELSE Enc(Head(vs), n, e) \o EncAll(Tail(vs), n, e)

\* the section magics, as bytes
MAGIC_BNTX == <<66, 78, 84, 88>>
MAGIC_NX == <<78, 88, 32, 32>>
MAGIC_STR == <<95, 83, 84, 82>>
MAGIC_DIC == <<95, 68, 73, 67>>
MAGIC_BRTI == <<66, 82, 84, 73>>
MAGIC_BRTD == <<66, 82, 84, 68>>
MAGIC_RLT == <<95, 82, 76, 84>>

\* ByteOrder: the two bytes of the BOM as they stand in the file
BomBytes(bom) == IF bom = "LittleEndian" THEN <<255, 254>> ELSE <<254, 255>>

TextureDimensionCode(t) == CASE t = "D1" -> 1 [] t = "D2" -> 2 [] t = "D3" -> 3
TextureViewDimensionCode(t) == CASE t = "D1" -> 0 [] t = "D2" -> 1 [] t = "D3" -> 2 [] t = "Cube" -> 3

(***************************************************************************)
(* Section sizes, lib.rs lines 498-507, 529-566, 639-645.                  *)
(***************************************************************************)
BntxStr_get_size(str) == align(2 + Len(str.chars) + 1, 4)

RECURSIVE SumStrSizes(_)
SumStrSizes(strings) ==
    IF strings = <<>> THEN 0
    ELSE BntxStr_get_size(Head(strings)) + SumStrSizes(Tail(strings))

\* the size of a string section counted without its empty string
StrSection_get_size_no_empty(sec) == align((5 * 4) + SumStrSizes(sec.strings), 8)

StrSection_get_size(sec) == align((5 * 4) + EMPTY_STR_SIZE + SumStrSizes(sec.strings), 8)

\* the fixed 40 bytes the Writer emits for every dictionary: node_count 1, a root
\* node (reference -1, left 1, right 0, name at 0x1B4) and one node (reference 1,
\* left 0, right 1, name at 0x1B8)
DICT_SECTION ==
    <<95, 68, 73, 67, 1, 0, 0, 0,
      255, 255, 255, 255, 1, 0, 0, 0, 180, 1, 0, 0, 0, 0, 0, 0,
      1, 0, 0, 0, 0, 0, 1, 0, 184, 1, 0, 0, 0, 0, 0, 0>>

DictSection_get_size(dict) == Len(DICT_SECTION)

\* the size of a relocation table counted without its entries
RelocationTable_get_size_no_entries(t) ==
    4 + 4 + 4 + 4 + (Len(t.sections) * SIZE_OF_RELOC_SECTION)

RelocationTable_get_size(t) ==
    4 + 4 + 4 + 4 + (Len(t.sections) * SIZE_OF_RELOC_SECTION)
        + (Len(t.entries) * SIZE_OF_RELOC_ENTRY)

(***************************************************************************)
(* from_image_data, lib.rs lines 157-334, and calculate_mipmap_offsets,    *)
(* lines 347-377.                                                          *)
(***************************************************************************)
\* the block height stored where its exponent belongs
block_height_log2_of_plain(block_height) == block_height

\* the match of lines 172-179: the exponent of the block height
block_height_log2_of(block_height) ==
    CASE block_height = 1 -> 0
      [] block_height = 2 -> 1
      [] block_height = 4 -> 2
      [] block_height = 8 -> 3
      [] block_height = 16 -> 4
      [] block_height = 32 -> 5

\* the size of a mip level computed with the block height of the first level
offsets_mip_size_mip0_height(mip, width, bdim, height, depth, block_height, bpp) ==
    swizzled_mip_size(div_round_up(Max(Shr(width, mip), 1), bdim.width),
                      div_round_up(Max(Shr(height, mip), 1), bdim.height),
                      div_round_up(Max(Shr(depth, mip), 1), bdim.depth),
                      block_height, bpp)

\* the size of mip level mip as calculate_mipmap_offsets computes it
offsets_mip_size(mip, width, bdim, height, depth, block_height, bpp) ==
    LET mip_width == div_round_up(Max(Shr(width, mip), 1), bdim.width)
        mip_height == div_round_up(Max(Shr(height, mip), 1), bdim.height)
        mip_depth == div_round_up(Max(Shr(depth, mip), 1), bdim.depth)
    IN  swizzled_mip_size(mip_width, mip_height, mip_depth,
                          mip_block_height(mip_height, block_height), bpp)

\* the loop of calculate_mipmap_offsets from level mip on, mipmap_offset being the sum so far
RECURSIVE mipmap_offsets_from(_, _, _, _, _, _, _, _, _)
mipmap_offsets_from(mip, mipmap_offset, mipmap_count, width, bdim, height, depth, block_height, bpp) ==
    IF mip >= mipmap_count THEN <<>>
    ELSE <<U64(START_OF_TEXTURE_DATA + mipmap_offset)>>
         \o mipmap_offsets_from(mip + 1,
                mipmap_offset + offsets_mip_size(mip, width, bdim, height, depth, block_height, bpp),
                mipmap_count, width, bdim, height, depth, block_height, bpp)

calculate_mipmap_offsets(mipmap_count, width, bdim, height, depth, block_height, bpp) ==
    mipmap_offsets_from(0, 0, mipmap_count, width, bdim, height, depth, block_height, bpp)

\* the RelocationTable from_image_data assembles, lines 226-295
image_reloc_table(str_section_size, dict_section_size, data_len) ==
    [sections |-> <<
        [pointer |-> U64(0), position |-> 0,
         size |-> START_OF_STR_SECTION + str_section_size + dict_section_size
                    + SIZE_OF_BRTI + 520,
         index |-> 0, count |-> 4],
        [pointer |-> U64(0), position |-> BRTD_SECTION_START,
         size |-> data_len + SIZE_OF_BRTD, index |-> 4, count |-> 1] >>,
     entries |-> <<
        [position |-> BNTX_HEADER_SIZE + 8, struct_count |-> 2, offset_count |-> 1,
         padding_count |-> AsU8(((HEADER_SIZE + MEM_POOL_SIZE) - (BNTX_HEADER_SIZE + 16)) \div 8)],
        [position |-> BNTX_HEADER_SIZE + 24, struct_count |-> 2, offset_count |-> 2,
         padding_count |-> AsU8((START_OF_STR_SECTION + str_section_size + dict_section_size
                                   + 128 - HEADER_SIZE) \div 8)],
        [position |-> START_OF_STR_SECTION + str_section_size + 16,
         struct_count |-> 2, offset_count |-> 1, padding_count |-> 1],
        [position |-> START_OF_STR_SECTION + str_section_size + dict_section_size + 96,
         struct_count |-> 1, offset_count |-> 3, padding_count |-> 0],
        [position |-> BNTX_HEADER_SIZE + 16, struct_count |-> 2, offset_count |-> 1,
         padding_count |-> AsU8(((START_OF_STR_SECTION + str_section_size + dict_section_size
                                    + SIZE_OF_BRTI + 512) - (BNTX_HEADER_SIZE + 24)) \div 8)] >>]

\* the dictionary from_image_data stores: no nodes
EmptyDict == [node_count |-> 0, nodes |-> <<>>]

from_image_data(name, width, height, depth, mipmap_count, layer_count, format, data) ==
    LET bdim == block_dim(format)
        block_height == block_height_mip0(IF height < 0 THEN Far
                                          ELSE div_round_up(height, bdim.height))
        block_height_log2 == block_height_log2_of(block_height)
        bpp == bytes_per_pixel(format)
        swz == swizzle_surface(width, height, depth, data, bdim, block_height, bpp,
                               mipmap_count, layer_count)
        str_section == [block_size |-> 88, block_offset |-> U64(88),
                        strings |-> <<[chars |-> name]>>]
        str_section_size == StrSection_get_size(str_section)
        dict_section_size == DictSection_get_size(EmptyDict)
        mipmap_offsets == calculate_mipmap_offsets(mipmap_count, width, bdim, height, depth,
                                                   block_height, bpp)
    IN  IF swz.res # "Ok" THEN Err
        ELSE Ok([
          header |-> [
            version |-> <<0, 4>>,
            bom |-> "LittleEndian",
            inner |-> [
              revision |-> 16396,
              file_name |-> name,
              str_section |-> str_section,
              reloc_table |-> image_reloc_table(str_section_size, dict_section_size,
                                                Len(swz.val))]],
          nx_header |-> [
            dict |-> EmptyDict,
            dict_size |-> U64(88),
            info_ptr |-> [
              size |-> 3576, size2 |-> U64(3576), flags |-> 1,
              texture_dimension |-> "D2",
              tile_mode |-> 0, swizzle |-> 0,
              mipmap_count |-> AsU16(mipmap_count),
              multi_sample_count |-> 1,
              format |-> format,
              unk2 |-> 32,
              width |-> width, height |-> height, depth |-> depth,
              layer_count |-> layer_count,
              block_height_log2 |-> block_height_log2,
              unk4 |-> <<65543, 0, 0, 0, 0, 0>>,
              image_size |-> Len(swz.val),
              align |-> 512,
              comp_sel |-> 84148994,
              texture_view_dimension |-> "D2",
              name_addr |-> [chars |-> name],
              parent_addr |-> U64(32),
              texture |-> [mipmap_offsets |-> mipmap_offsets, image_data |-> swz.val]]]])

(***************************************************************************)
(* The Writer, lib.rs lines 87-136, 400-426, 475-494, 509-556, 601-618,    *)
(* 647-658 and 794-847.  Each operator yields the bytes one write_options  *)
(* emits for byte order e; pos is the stream position it starts at, where  *)
(* the bytes depend on it.                                                 *)
(***************************************************************************)
\* the body F applied to the value v, which is computed once
With(v, F(_)) == F(v)

\* zero bytes up to the next multiple of n (binrw's align_after)
AlignPad(pos, n) == Zeros(align(pos, n) - pos)

bytes_null_terminated(chars) == chars \o <<0>>

\* BntxStr: len (chars.len() as u16), the characters and a NUL, aligned to 4
BntxStr_write(str, pos, e) ==
    With(Enc(AsU16(Len(str.chars)), 2, e) \o bytes_null_terminated(str.chars), LAMBDA raw :
         raw \o AlignPad(pos + Len(raw), 4))

RECURSIVE BntxStrs_write(_, _, _)
BntxStrs_write(strings, pos, e) ==
    IF strings = <<>> THEN <<>>
    ELSE With(BntxStr_write(Head(strings), pos, e), LAMBDA first :
              first \o BntxStrs_write(Tail(strings), pos + Len(first), e))

\* StrSection: magic, block_size, block_offset, str_count, the empty string, the
\* strings, aligned to 8
StrSection_write(sec, pos, e) ==
    With(MAGIC_STR \o Enc(sec.block_size, 4, e) \o Enc(sec.block_offset, 8, e)
             \o Enc(Len(sec.strings), 4, e), LAMBDA head :
    With(head \o BntxStr_write([chars |-> <<>>], pos + Len(head), e), LAMBDA with_empty :
    With(with_empty \o BntxStrs_write(sec.strings, pos + Len(with_empty), e), LAMBDA body :
         body \o AlignPad(pos + Len(body), 8))))

DictSection_write(dict, e) == DICT_SECTION

RelocationSection_write(r, e) ==
    Enc(r.pointer, 8, e) \o Enc(r.position, 4, e) \o Enc(r.size, 4, e)
        \o Enc(r.index, 4, e) \o Enc(r.count, 4, e)

RelocationEntry_write(r, e) ==
    Enc(r.position, 4, e) \o Enc(r.struct_count, 2, e) \o Enc(r.offset_count, 1, e)
        \o Enc(r.padding_count, 1, e)

RECURSIVE RelocationSections_write(_, _)
RelocationSections_write(rs, e) ==
    IF rs = <<>> THEN <<>>
    ELSE RelocationSection_write(Head(rs), e) \o RelocationSections_write(Tail(rs), e)

RECURSIVE RelocationEntries_write(_, _)
RelocationEntries_write(rs, e) ==
    IF rs = <<>> THEN <<>>
    ELSE RelocationEntry_write(Head(rs), e) \o RelocationEntries_write(Tail(rs), e)

\* RelocationTable: magic, its own position (stream position after the magic - 4),
\* the section count, 4 zero bytes, the sections, the entries
RelocationTable_write(t, pos, e) ==
    MAGIC_RLT \o Enc((pos + 4) - 4, 4, e) \o Enc(Len(t.sections), 4, e) \o Zeros(4)
        \o RelocationSections_write(t.sections, e)
        \o RelocationEntries_write(t.entries, e)

\* the length of the image data of a BntxFile
ImageLen(b) == Len(b.nx_header.info_ptr.texture.image_data)

BntxHeader_write(b, e) ==
    LET start_of_reloc_section == START_OF_TEXTURE_DATA + ImageLen(b)
    IN  MAGIC_BNTX
        \o Enc(0, 4, e)
        \o Enc(b.header.version[1], 2, e) \o Enc(b.header.version[2], 2, e)
        \o BomBytes(b.header.bom)
        \o Enc(b.header.inner.revision, 2, e)
        \o Enc(FILENAME_STR_OFFSET + 2, 4, e)
        \o Enc(0, 2, e)
        \o Enc(AsU16(START_OF_STR_SECTION), 2, e)
        \o Enc(start_of_reloc_section, 4, e)
        \o Enc(start_of_reloc_section
                 + RelocationTable_get_size(b.header.inner.reloc_table), 4, e)

NxHeader_write(b, e) ==
    MAGIC_NX
        \o Enc(1, 4, e)
        \o Enc(U64(HEADER_SIZE + MEM_POOL_SIZE), 8, e)
        \o Enc(U64(BRTD_SECTION_START), 8, e)
        \o Enc(U64(START_OF_STR_SECTION + StrSection_get_size(b.header.inner.str_section)),
               8, e)
        \o Enc(b.nx_header.dict_size, 8, e)

\* START_OF_STR_SECTION + str.size + dict.size: where the Writer takes the BRTI to start
BrtiBase(b) ==
    START_OF_STR_SECTION + StrSection_get_size(b.header.inner.str_section)
        + DictSection_get_size(b.nx_header.dict)

\* the eight u64 values with the third and the fifth exchanged
BrtiTail_table_fifth(b) ==
    << U64(FILENAME_STR_OFFSET),
       U64(BNTX_HEADER_SIZE),
       U64(BrtiBase(b) + SIZE_OF_BRTI),
       U64(0),
       U64(BrtiBase(b) + SIZE_OF_BRTI + 512),
       U64(BrtiBase(b) + SIZE_OF_BRTI + 256),
       U64(0),
       U64(0)>>

\* the eight u64 values that end the BrtiSection
BrtiTail(b) ==
    << U64(FILENAME_STR_OFFSET),
       U64(BNTX_HEADER_SIZE),
       U64(BrtiBase(b) + SIZE_OF_BRTI + 512),
       U64(0),
       U64(BrtiBase(b) + SIZE_OF_BRTI),
       U64(BrtiBase(b) + SIZE_OF_BRTI + 256),
       U64(0),
       U64(0)>>

BrtiSection_write(b, e) ==
    LET i == b.nx_header.info_ptr
    IN  MAGIC_BRTI
        \o Enc(i.size, 4, e) \o Enc(i.size2, 8, e) \o Enc(i.flags, 1, e)
        \o Enc(TextureDimensionCode(i.texture_dimension), 1, e)
        \o Enc(i.tile_mode, 2, e) \o Enc(i.swizzle, 2, e) \o Enc(i.mipmap_count, 2, e)
        \o Enc(i.multi_sample_count, 4, e)
        \o Enc(FormatCode(i.format), 4, e)
        \o Enc(i.unk2, 4, e)
        \o Enc(i.width, 4, e) \o Enc(i.height, 4, e) \o Enc(i.depth, 4, e)
        \o Enc(i.layer_count, 4, e) \o Enc(i.block_height_log2, 4, e)
        \o EncAll(i.unk4, 4, e)
        \o Enc(i.image_size, 4, e) \o Enc(i.align, 4, e) \o Enc(i.comp_sel, 4, e)
        \o Enc(TextureViewDimensionCode(i.texture_view_dimension), 4, e)
        \o EncAll(BrtiTail(b), 8, e)

\* the bytes BntxFile::write emits up to and including the mipmap offset table
WriteHead(b, e) ==
    With(BntxHeader_write(b, e) \o NxHeader_write(b, e) \o Zeros(336)
             \o Enc(U64(BrtiBase(b)), 8, e), LAMBDA before_str :
        before_str
        \o StrSection_write(b.header.inner.str_section, Len(before_str), e)
        \o DictSection_write(b.nx_header.dict, e)
        \o BrtiSection_write(b, e)
        \o Zeros(RESERVED_SIZE)
        \o EncAll(b.nx_header.info_ptr.texture.mipmap_offsets, 8, e))

\* the bytes BntxFile::write emits from the BRTD header on, starting at pos
WriteTail(b, pos, e) ==
    MAGIC_BRTD \o Enc(0, 4, e) \o Enc(U64(ImageLen(b) + 16), 8, e)
        \o b.nx_header.info_ptr.texture.image_data
        \o RelocationTable_write(b.header.inner.reloc_table,
                                 pos + SIZE_OF_BRTD + ImageLen(b), e)

\* The whole of a file in byte order e.  The padding to BRTD_SECTION_START is
\* BRTD_SECTION_START - mipmaps_offset in u64: when the table ends past
\* BRTD_SECTION_START the subtraction overflows (a panic with overflow checks, and
\* without them a padding vector of nearly 2^64 bytes that cannot be allocated),
\* so the call aborts.
Serialize(b, e) ==
    With(WriteHead(b, e), LAMBDA head :
         With(Len(head), LAMBDA mipmaps_offset :
              IF BRTD_SECTION_START < mipmaps_offset THEN Panic
              ELSE With(head \o Zeros(BRTD_SECTION_START - mipmaps_offset), LAMBDA padded :
                        Ok(padded \o WriteTail(b, Len(padded), e)))))

\* BntxFile::write: always little-endian (line 91)
write(b) == Serialize(b, "Little")

(***************************************************************************)
(* The Reader: the binrw parsers derived for the structs of lib.rs, lines  *)
(* 37-43, 379-398, 428-452, 454-494, 509-550, 582-599, 620-636, 737-790    *)
(* and 849-879.  A parser yields Ok(value), Err (a binrw error: bad magic, *)
(* no enum variant, end of input) or Panic (the call aborts).  A FilePtr   *)
(* parses its pointee at the pointer and returns to where it was, so the   *)
(* fields of a struct stand at fixed offsets from its start.               *)
(***************************************************************************)
\* byte i (1 = least significant) of the n-byte integer at offset off
DecByte(f, off, n, e, i) == IF e = "Little" THEN f[off + i] ELSE f[off + n + 1 - i]

\* the u8, u16 or u32 (n = 1, 2, 4) at offset off in byte order e
DecInt(f, off, n, e) ==
    SumSeq([i \in 1..n |->
        (IF i = 4 /\ DecByte(f, off, n, e, i) >= 128
         THEN DecByte(f, off, n, e, i) - 256
         ELSE DecByte(f, off, n, e, i)) * Pow2(8 * (i - 1))])

\* the unsigned n-byte integer at offset off in byte order e: a u64 when n = 8
Dec(f, off, n, e) ==
    IF n = 8
    THEN [hi |-> DecInt(f, IF e = "Little" THEN off + 4 ELSE off, 4, e),
          lo |-> DecInt(f, IF e = "Little" THEN off ELSE off + 4, 4, e)]
    ELSE DecInt(f, off, n, e)

\* the i32 at offset off: the integer with the 32 bits read
DecI32(f, off, e) == DecInt(f, off, 4, e)

\* n bytes can be read at offset off (off and n a u32 or a smaller integer): no
\* bytes can be read anywhere, a seek past the end being no error
Can(f, off, n) == n = 0 \/ (off >= 0 /\ n > 0 /\ n <= Len(f) /\ off <= Len(f) - n)

Sub(f, off, n) == SubSeq(f, off + 1, off + n)

\* A seek to the u64 position v succeeds: v is no more than the largest position of
\* the stream (both compared as u64).  Which position that is the stream decides: see
\* Streams.
Seeks(stream, v) ==
    \/ U32Lt(v.hi, stream.max_offset.hi)
    \/ v.hi = stream.max_offset.hi /\ ~U32Lt(stream.max_offset.lo, v.lo)

\* The length k of the valid sequence that starts at index i, or -k for k invalid
\* bytes there (the longest prefix of a sequence that the next byte does not
\* continue).  Cont: a continuation byte; SecondOf3, SecondOf4: the second byte b1
\* continues the lead byte b0 of a sequence of three or of four bytes (no overlong
\* form, no surrogate, nothing above U+10FFFF); a byte past the end continues nothing.
Utf8Step(bytes, i) ==
    LET Cont(b) == b >= 128 /\ b <= 191
        ByteAt(j) == IF j <= Len(bytes) THEN bytes[j] ELSE 0
        SecondOf3(b0, b1) ==
            \/ b0 = 224 /\ b1 >= 160 /\ b1 <= 191
            \/ b0 >= 225 /\ b0 <= 236 /\ Cont(b1)
            \/ b0 = 237 /\ b1 >= 128 /\ b1 <= 159
            \/ b0 >= 238 /\ b0 <= 239 /\ Cont(b1)
        SecondOf4(b0, b1) ==
            \/ b0 = 240 /\ b1 >= 144 /\ b1 <= 191
            \/ b0 >= 241 /\ b0 <= 243 /\ Cont(b1)
            \/ b0 = 244 /\ b1 >= 128 /\ b1 <= 143
        b0 == bytes[i]
        b1 == ByteAt(i + 1)
        b2 == ByteAt(i + 2)
        b3 == ByteAt(i + 3)
    IN  IF b0 < 128 THEN 1
        ELSE IF b0 >= 194 /\ b0 <= 223 THEN (IF Cont(b1) THEN 2 ELSE -1)
        ELSE IF b0 >= 224 /\ b0 <= 239
             THEN (IF ~SecondOf3(b0, b1) THEN -1 ELSE IF ~Cont(b2) THEN -2 ELSE 3)
        ELSE IF b0 >= 240 /\ b0 <= 244
             THEN (IF ~SecondOf4(b0, b1) THEN -1 ELSE IF ~Cont(b2) THEN -2
                   ELSE IF ~Cont(b3) THEN -3 ELSE 4)
        ELSE -1

RECURSIVE Utf8LossyFrom(_, _)
Utf8LossyFrom(bytes, i) ==
    IF i > Len(bytes) THEN <<>>
    ELSE With(Utf8Step(bytes, i), LAMBDA k :
         IF k > 0 THEN SubSeq(bytes, i, i + k - 1) \o Utf8LossyFrom(bytes, i + k)
         ELSE <<239, 191, 189>> \o Utf8LossyFrom(bytes, i - k))

\* String::from_utf8_lossy on the bytes read: valid UTF-8 is kept, and each run of
\* invalid bytes that Utf8Step measures becomes one U+FFFD (EF BF BD)
Utf8Lossy(bytes) ==
    IF \A i \in 1..Len(bytes) : bytes[i] < 128 THEN bytes
    ELSE Utf8LossyFrom(bytes, 1)

\* the offset of the first zero byte at or after off, or -1 when there is none
RECURSIVE FindNul(_, _)
FindNul(f, off) ==
    IF off >= Len(f) THEN -1
    ELSE LET hi == Min(off + 64, Len(f))
             zs == {k \in off..(hi - 1) : f[k + 1] = 0}
         IN  IF zs # {} THEN CHOOSE k \in zs : \A j \in zs : k <= j
             ELSE FindNul(f, hi)

\* NullString at off, to_string()
ReadNullString(f, off) ==
    IF off < 0 THEN Err
    ELSE LET z == FindNul(f, off)
         IN  IF z < 0 THEN Err ELSE Ok(Utf8Lossy(Sub(f, off, z - off)))

\* BntxStr at off: len, then len bytes (the NUL is not read), then align to 4;
\* next is the position after it
ReadBntxStr(f, off, e) ==
    IF ~Can(f, off, 2) THEN [res |-> "Err", val |-> <<>>, next |-> 0]
    ELSE LET len == Dec(f, off, 2, e)
         IN  IF ~Can(f, off + 2, len) THEN [res |-> "Err", val |-> <<>>, next |-> 0]
             ELSE [res |-> "Ok",
                   val |-> [chars |-> Utf8Lossy(Sub(f, off + 2, len))],
                   next |-> align(off + 2 + len, 4)]

\* count BntxStr in sequence from off (each takes at least 2 bytes)
RECURSIVE ReadBntxStrs(_, _, _, _)
ReadBntxStrs(f, off, count, e) ==
    IF count = 0 THEN Ok(<<>>)
    ELSE IF count < 0 \/ count > Len(f) THEN Err
    ELSE With(ReadBntxStr(f, off, e), LAMBDA first :
         IF first.res # "Ok" THEN Err
         ELSE With(ReadBntxStrs(f, first.next, count - 1, e), LAMBDA rest :
              IF rest.res # "Ok" THEN Err
              ELSE Ok(<<first.val>> \o rest.val)))

ReadStrSection(f, off, e) ==
    IF ~Can(f, off, STR_HEADER_SIZE) THEN Err
    ELSE IF Sub(f, off, 4) # MAGIC_STR THEN Err
    ELSE With(ReadBntxStr(f, off + 20, e), LAMBDA empty :
         IF empty.res # "Ok" THEN Err
         ELSE With(ReadBntxStrs(f, empty.next, Dec(f, off + 16, 4, e), e), LAMBDA strs :
              IF strs.res # "Ok" THEN Err
              ELSE Ok([block_size |-> Dec(f, off + 4, 4, e),
                       block_offset |-> Dec(f, off + 8, 8, e),
                       strings |-> strs.val])))

ReadRelocationSection(f, off, e) ==
    [pointer |-> Dec(f, off, 8, e), position |-> Dec(f, off + 8, 4, e),
     size |-> Dec(f, off + 12, 4, e), index |-> Dec(f, off + 16, 4, e),
     count |-> Dec(f, off + 20, 4, e)]

ReadRelocationEntry(f, off, e) ==
    [position |-> Dec(f, off, 4, e), struct_count |-> Dec(f, off + 4, 2, e),
     offset_count |-> Dec(f, off + 6, 1, e), padding_count |-> Dec(f, off + 7, 1, e)]

\* The sum of the sections' count fields as two 16-bit halves, hi unreduced:
\* the sum is hi * 2^16 + lo, and is 2^32 or more when hi >= 2^16.
CountSum(sections) ==
    With(SumSeq([i \in 1..Len(sections) |-> Lo16(sections[i].count)]), LAMBDA los :
         [hi |-> SumSeq([i \in 1..Len(sections) |-> Hi16(sections[i].count)])
                     + (los \div 65536),
          lo |-> los % 65536])

\* sections.iter().map(|x| x.count).sum::<u32>() as a wrapping sum gives it
WrappedCount(sum) == U32Of(sum.hi % 65536, sum.lo)

\* the entries of a RelocationTable whose sections are read: n of them from eoff,
\* n being the u32 sum of the sections' counts.  When the sum passes 2^32 a build
\* with overflow checks panics and one without goes on with the wrapped sum.
ReadRelocationEntries(f, eoff, e, build, sections, sum, n) ==
    IF sum.hi >= 65536 /\ build = "debug" THEN Panic
    ELSE IF n < 0 \/ n > Len(f) THEN Err
    ELSE IF ~Can(f, eoff, n * SIZE_OF_RELOC_ENTRY) THEN Err
    ELSE Ok([sections |-> sections,
             entries |-> [i \in 1..n |->
                 ReadRelocationEntry(f, eoff + (i - 1) * SIZE_OF_RELOC_ENTRY, e)]])

\* RelocationTable at off: the magic, its position and the section count (12
\* bytes), 4 bytes of padding that are skipped by a seek, the sections, the entries
ReadRelocationTable(f, off, e, build) ==
    IF ~Can(f, off, 12) THEN Err
    ELSE IF Sub(f, off, 4) # MAGIC_RLT THEN Err
    ELSE With(Dec(f, off + 8, 4, e), LAMBDA count :
         IF count < 0 \/ count > Len(f) THEN Err
         ELSE IF ~Can(f, off + 16, count * SIZE_OF_RELOC_SECTION) THEN Err
         ELSE With([i \in 1..count |->
                       ReadRelocationSection(f, off + 16 + (i - 1) * SIZE_OF_RELOC_SECTION, e)],
                   LAMBDA sections :
              With(CountSum(sections), LAMBDA sum :
                   ReadRelocationEntries(f, off + 16 + count * SIZE_OF_RELOC_SECTION, e,
                       build, sections, sum, WrappedCount(sum)))))

\* DictNode at off: reference, left_index, right_index and a pointer to its name
ReadDictNode(f, stream, off, e) ==
    IF ~Seeks(stream, Dec(f, off + 8, 8, e)) THEN Err
    ELSE With(ReadBntxStr(f, At(Dec(f, off + 8, 8, e)), e), LAMBDA name :
         IF name.res # "Ok" THEN Err
         ELSE Ok([reference |-> DecI32(f, off, e), left_index |-> Dec(f, off + 4, 2, e),
                  right_index |-> Dec(f, off + 6, 2, e), name |-> name.val]))

RECURSIVE ReadDictNodes(_, _, _, _, _)
ReadDictNodes(f, stream, off, count, e) ==
    IF count = 0 THEN Ok(<<>>)
    ELSE IF ~Can(f, off, 16) THEN Err
    ELSE With(ReadDictNode(f, stream, off, e), LAMBDA first :
         IF first.res # "Ok" THEN Err
         ELSE With(ReadDictNodes(f, stream, off + 16, count - 1, e), LAMBDA rest :
              IF rest.res # "Ok" THEN Err
              ELSE Ok(<<first.val>> \o rest.val)))

\* DictSection at off: magic, node_count and node_count + 1 nodes.  For a
\* node_count of 2^32 - 1 the u32 sum overflows: a build with overflow checks
\* panics, and one without reads no node.
ReadDictSection(f, stream, off, e, build) ==
    IF ~Can(f, off, 8) THEN Err
    ELSE IF Sub(f, off, 4) # MAGIC_DIC THEN Err
    ELSE With(Dec(f, off + 4, 4, e), LAMBDA node_count :
         IF node_count = -1
         THEN (IF build = "debug" THEN Panic
               ELSE Ok([node_count |-> node_count, nodes |-> <<>>]))
         ELSE IF node_count < 0 \/ node_count > Len(f) THEN Err
         ELSE With(ReadDictNodes(f, stream, off + 8, node_count + 1, e), LAMBDA nodes :
              IF nodes.res # "Ok" THEN Err
              ELSE Ok([node_count |-> node_count, nodes |-> nodes.val])))

\* Texture at off: mipmap_count offsets, then a seek to mipmap_offsets[0] and
\* image_size bytes from there.  With no offsets the index is out of bounds and the
\* call panics, wherever off is.
ReadTexture(f, stream, off, image_size, mipmap_count, e) ==
    IF mipmap_count = 0 THEN Panic
    ELSE IF ~Can(f, off, 8 * mipmap_count) THEN Err
    ELSE With([i \in 1..mipmap_count |-> Dec(f, off + 8 * (i - 1), 8, e)],
              LAMBDA mipmap_offsets :
         IF ~Seeks(stream, mipmap_offsets[1]) THEN Err
         ELSE IF ~Can(f, At(mipmap_offsets[1]), image_size) THEN Err
         ELSE Ok([mipmap_offsets |-> mipmap_offsets,
                  image_data |-> Sub(f, At(mipmap_offsets[1]), image_size)]))

TextureDimensionOf(code) == CASE code = 1 -> "D1" [] code = 2 -> "D2" [] code = 3 -> "D3"
TextureViewDimensionOf(code) ==
    CASE code = 0 -> "D1" [] code = 1 -> "D2" [] code = 2 -> "D3" [] code = 3 -> "Cube"
FormatOf(code) == CHOOSE fmt \in SurfaceFormat : FormatCode(fmt) = code

\* the fields of a BrtiSection at off whose name and texture are read
BrtiFields(f, off, e, name, texture) ==
    [size |-> Dec(f, off + 4, 4, e),
     size2 |-> Dec(f, off + 8, 8, e),
     flags |-> Dec(f, off + 16, 1, e),
     texture_dimension |-> TextureDimensionOf(Dec(f, off + 17, 1, e)),
     tile_mode |-> Dec(f, off + 18, 2, e),
     swizzle |-> Dec(f, off + 20, 2, e),
     mipmap_count |-> Dec(f, off + 22, 2, e),
     multi_sample_count |-> Dec(f, off + 24, 4, e),
     format |-> FormatOf(Dec(f, off + 28, 4, e)),
     unk2 |-> Dec(f, off + 32, 4, e),
     width |-> Dec(f, off + 36, 4, e),
     height |-> Dec(f, off + 40, 4, e),
     depth |-> Dec(f, off + 44, 4, e),
     layer_count |-> Dec(f, off + 48, 4, e),
     block_height_log2 |-> Dec(f, off + 52, 4, e),
     unk4 |-> [i \in 1..6 |-> Dec(f, off + 56 + 4 * (i - 1), 4, e)],
     image_size |-> Dec(f, off + 80, 4, e),
     align |-> Dec(f, off + 84, 4, e),
     comp_sel |-> Dec(f, off + 88, 4, e),
     texture_view_dimension |-> TextureViewDimensionOf(Dec(f, off + 92, 4, e)),
     name_addr |-> name,
     parent_addr |-> Dec(f, off + 104, 8, e),
     texture |-> texture]

\* BrtiSection at off; its name and its texture are read at the pointers stored at
\* off + 96 and off + 112, after a seek to each
ReadBrtiSection(f, stream, off, e) ==
    IF ~Can(f, off, 120) THEN Err
    ELSE IF Sub(f, off, 4) # MAGIC_BRTI THEN Err
    ELSE IF Dec(f, off + 17, 1, e) \notin {1, 2, 3} THEN Err
    ELSE IF Dec(f, off + 28, 4, e) \notin {FormatCode(fmt) : fmt \in SurfaceFormat} THEN Err
    ELSE IF Dec(f, off + 92, 4, e) \notin {0, 1, 2, 3} THEN Err
    ELSE IF ~Seeks(stream, Dec(f, off + 96, 8, e)) THEN Err
    ELSE With(ReadBntxStr(f, At(Dec(f, off + 96, 8, e)), e), LAMBDA name :
         IF name.res # "Ok" THEN Err
         ELSE IF ~Seeks(stream, Dec(f, off + 112, 8, e)) THEN Err
         ELSE With(ReadTexture(f, stream, At(Dec(f, off + 112, 8, e)),
                               Dec(f, off + 80, 4, e), Dec(f, off + 22, 2, e), e),
                   LAMBDA texture :
              IF texture.res # "Ok" THEN texture
              ELSE Ok(BrtiFields(f, off, e, name.val, texture.val))))

\* read_double_indirect: the u64 at off points at a u64 that points at the BRTI
read_double_indirect(f, stream, off, e) ==
    IF ~Can(f, off, 8) THEN Err
    ELSE IF ~Seeks(stream, Dec(f, off, 8, e)) THEN Err
    ELSE IF ~Can(f, At(Dec(f, off, 8, e)), 8) THEN Err
    ELSE IF ~Seeks(stream, Dec(f, At(Dec(f, off, 8, e)), 8, e)) THEN Err
    ELSE ReadBrtiSection(f, stream, At(Dec(f, At(Dec(f, off, 8, e)), 8, e)), e)

\* NxHeader at off: magic and count, the pointer to the pointer to the BRTI, the
\* BRTD pointer, the pointer to the dictionary, dict_size
ReadNxHeader(f, stream, off, e, build) ==
    IF ~Can(f, off, 8) THEN Err
    ELSE IF Sub(f, off, 4) # MAGIC_NX THEN Err
    ELSE With(read_double_indirect(f, stream, off + 8, e), LAMBDA info :
         IF info.res # "Ok" THEN info
         ELSE IF ~Can(f, off, 32) THEN Err
         ELSE IF ~Seeks(stream, Dec(f, off + 24, 8, e)) THEN Err
         ELSE With(ReadDictSection(f, stream, At(Dec(f, off + 24, 8, e)), e, build),
                   LAMBDA dict :
              IF dict.res # "Ok" THEN dict
              ELSE IF ~Can(f, off, NX_HEADER_SIZE) THEN Err
              ELSE Ok([dict |-> dict.val,
                       dict_size |-> Dec(f, off + 32, 8, e),
                       info_ptr |-> info.val])))

\* ByteOrder: the u16 read big-endian at off is 0xFFFE or 0xFEFF
ReadByteOrder(f, off) ==
    IF ~Can(f, off, 2) THEN Err
    ELSE IF Sub(f, off, 2) = <<255, 254>> THEN Ok("LittleEndian")
    ELSE IF Sub(f, off, 2) = <<254, 255>> THEN Ok("BigEndian")
    ELSE Err

EndianOf(bom) == IF bom = "LittleEndian" THEN "Little" ELSE "Big"

\* HeaderInner at off in byte order e
ReadHeaderInner(f, off, e, build) ==
    IF ~Can(f, off, 6) THEN Err
    ELSE With(ReadNullString(f, Dec(f, off + 2, 4, e)), LAMBDA file_name :
         IF file_name.res # "Ok" THEN Err
         ELSE IF ~Can(f, off, 10) THEN Err
         ELSE With(ReadStrSection(f, Dec(f, off + 8, 2, e), e), LAMBDA str_section :
              IF str_section.res # "Ok" THEN Err
              ELSE IF ~Can(f, off, 14) THEN Err
              ELSE With(ReadRelocationTable(f, Dec(f, off + 10, 4, e), e, build),
                        LAMBDA reloc_table :
                   IF reloc_table.res # "Ok" THEN reloc_table
                   ELSE IF ~Can(f, off, 18) THEN Err
                   ELSE Ok([revision |-> Dec(f, off, 2, e),
                            file_name |-> file_name.val,
                            str_section |-> str_section.val,
                            reloc_table |-> reloc_table.val]))))

\* BntxHeader at offset 0, read little-endian until the BOM is known
ReadBntxHeader(f, build) ==
    IF ~Can(f, 0, 12) THEN Err
    ELSE IF Sub(f, 0, 4) # MAGIC_BNTX THEN Err
    ELSE With(ReadByteOrder(f, 12), LAMBDA bom :
         IF bom.res # "Ok" THEN Err
         ELSE With(ReadHeaderInner(f, 14, EndianOf(bom.val), build), LAMBDA inner :
              IF inner.res # "Ok" THEN inner
              ELSE Ok([version |-> <<Dec(f, 8, 2, "Little"), Dec(f, 10, 2, "Little")>>,
                       bom |-> bom.val,
                       inner |-> inner.val])))

\* BntxFile::read (reader.read_le()) on the bytes f held by a File or a Cursor, in a
\* debug or release build
read(f, stream, build) ==
    With(ReadBntxHeader(f, build), LAMBDA header :
         IF header.res # "Ok" THEN header
         ELSE With(ReadNxHeader(f, stream, BNTX_HEADER_SIZE, EndianOf(header.val.bom), build),
                   LAMBDA nx :
              IF nx.res # "Ok" THEN nx
              ELSE Ok([header |-> header.val, nx_header |-> nx.val])))

(***************************************************************************)
(* deswizzled_data, lib.rs lines 71-85.                                    *)
(***************************************************************************)
\* a block height taken to be the stored exponent itself
block_height_from_log2_plain(log2) ==
    IF log2 \in {1, 2, 4, 8, 16, 32} THEN Some(log2) ELSE None

\* BlockHeight::new(2u32.pow(log2) as usize): a block height for log2 in 0..5 and
\* None otherwise (2u32.pow overflows from 32 on: a panic, or 0 after wrapping)
block_height_from_log2(log2) ==
    IF log2 \in 0..5 THEN Some(Pow2(log2)) ELSE None

deswizzled_data(b) ==
    LET info == b.nx_header.info_ptr
        block_height == block_height_from_log2(info.block_height_log2)
    IN  IF ~block_height.some THEN Panic
        ELSE deswizzle_surface(info.width, info.height, info.depth,
                               info.texture.image_data, block_dim(info.format),
                               block_height.val, bytes_per_pixel(info.format),
                               info.mipmap_count, info.layer_count)

(***************************************************************************)
(* The DDS bridge, dds.rs.  A Dds is the record of the fields the bridge   *)
(* reads: the header's depth and mip_map_count (options), header10 (an     *)
(* option: dxgi_format, the TEXTURECUBE flag and array_size), the D3D      *)
(* format and FourCC of the pixel format (options), and the data.          *)
(***************************************************************************)
DxgiFormat_from(f) ==
    CASE f = "R8Unorm" -> "R8_UNorm"
      [] f = "R8G8B8A8Unorm" -> "R8G8B8A8_UNorm"
      [] f = "R8G8B8A8Srgb" -> "R8G8B8A8_UNorm_sRGB"
      [] f = "B8G8R8A8Unorm" -> "B8G8R8A8_UNorm"
      [] f = "B8G8R8A8Srgb" -> "B8G8R8A8_UNorm_sRGB"
      [] f = "BC1Unorm" -> "BC1_UNorm"
      [] f = "BC1Srgb" -> "BC1_UNorm_sRGB"
      [] f = "BC2Unorm" -> "BC2_UNorm"
      [] f = "BC2Srgb" -> "BC2_UNorm_sRGB"
      [] f = "BC3Unorm" -> "BC3_UNorm"
      [] f = "BC3Srgb" -> "BC3_UNorm_sRGB"
      [] f = "BC4Unorm" -> "BC4_UNorm"
      [] f = "BC4Snorm" -> "BC4_SNorm"
      [] f = "BC5Unorm" -> "BC5_UNorm"
      [] f = "BC5Snorm" -> "BC5_SNorm"
      [] f = "BC6Sfloat" -> "BC6H_SF16"
      [] f = "BC6Ufloat" -> "BC6H_UF16"
      [] f = "BC7Unorm" -> "BC7_UNorm"
      [] f = "BC7Srgb" -> "BC7_UNorm_sRGB"

image_format_from_dxgi(format) ==
    CASE format = "R8_UNorm" -> Some("R8Unorm")
      [] format = "R8G8B8A8_UNorm_sRGB" -> Some("R8G8B8A8Srgb")
      [] format = "B8G8R8A8_UNorm" -> Some("B8G8R8A8Unorm")
      [] format = "B8G8R8A8_UNorm_sRGB" -> Some("B8G8R8A8Srgb")
      [] format = "BC1_UNorm" -> Some("BC1Unorm")
      [] format = "BC1_UNorm_sRGB" -> Some("BC1Srgb")
      [] format = "BC2_UNorm" -> Some("BC2Unorm")
      [] format = "BC2_UNorm_sRGB" -> Some("BC2Srgb")
      [] format = "BC3_UNorm" -> Some("BC3Unorm")
      [] format = "BC3_UNorm_sRGB" -> Some("BC3Srgb")
      [] format = "BC4_UNorm" -> Some("BC4Unorm")
      [] format = "BC4_SNorm" -> Some("BC4Snorm")
      [] format = "BC5_UNorm" -> Some("BC5Unorm")
      [] format = "BC5_SNorm" -> Some("BC5Snorm")
      [] format = "BC6H_SF16" -> Some("BC6Sfloat")
      [] format = "BC6H_UF16" -> Some("BC6Ufloat")
      [] format = "BC7_UNorm" -> Some("BC7Unorm")
      [] format = "BC7_UNorm_sRGB" -> Some("BC7Srgb")
      [] OTHER -> None

image_format_from_d3d(format) ==
    CASE format = "DXT1" -> Some("BC1Unorm")
      [] format = "DXT2" -> Some("BC2Unorm")
      [] format = "DXT3" -> Some("BC2Unorm")
      [] format = "DXT4" -> Some("BC3Unorm")
      [] format = "DXT5" -> Some("BC3Unorm")
      [] OTHER -> None

image_format_from_fourcc(fourcc) ==
    CASE fourcc = "DXT1" -> Some("BC1Unorm")
      [] fourcc = "DXT2" -> Some("BC2Unorm")
      [] fourcc = "DXT3" -> Some("BC2Unorm")
      [] fourcc = "DXT4" -> Some("BC3Unorm")
      [] fourcc = "DXT5" -> Some("BC3Unorm")
      [] fourcc = "BC4U" -> Some("BC4Unorm")
      [] fourcc = "BC4S" -> Some("BC4Snorm")
      [] fourcc \in {"ATI2", "BC5U"} -> Some("BC5Unorm")
      [] fourcc = "BC5S" -> Some("BC5Snorm")
      [] OTHER -> None

\* Option::or_else, and Option::and_then applied to each format family
OrElse(opt, other) == IF opt.some THEN opt ELSE other
dxgi_and_then(opt) == IF opt.some THEN image_format_from_dxgi(opt.val) ELSE None
d3d_and_then(opt) == IF opt.some THEN image_format_from_d3d(opt.val) ELSE None
fourcc_and_then(opt) == IF opt.some THEN image_format_from_fourcc(opt.val) ELSE None

\* Dds::get_dxgi_format: the format of header10, when there is one
get_dxgi_format(dds) ==
    IF dds.header10.some THEN Some(dds.header10.val.dxgi_format) ELSE None

dds_image_format(dds) ==
    OrElse(OrElse(dxgi_and_then(get_dxgi_format(dds)), d3d_and_then(dds.d3d_format)),
           fourcc_and_then(dds.fourcc))

\* the closure of create_dds, line 8
some_if_above_one(x) == IF U32Lt(0, x) THEN Some(x) ELSE None

\* the NewDxgiParams create_dds builds, lines 10-30
new_dxgi_params(b) ==
    LET brti == b.nx_header.info_ptr
    IN  [height |-> brti.height,
         width |-> brti.width,
         depth |-> some_if_above_one(brti.depth),
         format |-> DxgiFormat_from(brti.format),
         mipmap_levels |-> some_if_above_one(brti.mipmap_count),
         array_layers |-> some_if_above_one(brti.layer_count),
         caps2 |-> IF U32Lt(1, brti.depth) THEN Some("VOLUME") ELSE None,
         is_cubemap |-> brti.layer_count = 6,
         resource_dimension |-> IF U32Lt(1, brti.depth) THEN "Texture3D" ELSE "Texture2D",
         alpha_mode |-> "Unknown"]

\* Dds::new_dxgi, a Result.  The ddsfile crate is not part of the source; this follows
\* what the specification says of the DDS it gives: the header keeps depth and
\* mipmap_levels as given; header10 sets TEXTURECUBE for a cubemap and keeps as
\* array_size the array_layers (1 when absent), which for a cubemap "read back as 1"
\* when 6 were given, its array_size counting cubes; the FourCC of a DXGI file is
\* "DX10", which is no D3D format.  Its data, which create_dds replaces whole, is left
\* empty.  It is an error for a format of unknown size, which DxgiFormat_from never
\* gives.
Dds_new_dxgi(params) ==
    IF params.format = "Unknown" THEN Err
    ELSE Ok([width |-> params.width,
             height |-> params.height,
             depth |-> params.depth,
             mip_map_count |-> params.mipmap_levels,
             header10 |-> Some([dxgi_format |-> params.format,
                                texturecube |-> params.is_cubemap,
                                array_size |->
                                    IF params.is_cubemap
                                    THEN (IF params.array_layers.some
                                          THEN params.array_layers.val ELSE 1) \div 6
                                    ELSE (IF params.array_layers.some
                                          THEN params.array_layers.val ELSE 1)]),
             d3d_format |-> None,
             fourcc |-> Some("DX10"),
             data |-> <<>>])

\* create_dds: Dds::new_dxgi(..).unwrap() first, then dds.data = deswizzled_data()?
create_dds(b) ==
    With(Dds_new_dxgi(new_dxgi_params(b)), LAMBDA made :
         IF made.res # "Ok" THEN Panic
         ELSE With(deswizzled_data(b), LAMBDA data :
                   IF data.res # "Ok" THEN data
                   ELSE Ok([made.val EXCEPT !.data = data.val])))

get_depth(dds) == IF dds.depth.some THEN dds.depth.val ELSE 1
get_num_mipmap_levels(dds) == IF dds.mip_map_count.some THEN dds.mip_map_count.val ELSE 1
get_num_array_layers(dds) == IF dds.header10.some THEN dds.header10.val.array_size ELSE 1

\* n * 6 for a u32 n, as two 16-bit halves, hi unreduced
TimesSix(n) ==
    [hi |-> (Hi16(n) * 6) + ((Lo16(n) * 6) \div 65536), lo |-> (Lo16(n) * 6) % 65536]

\* layer_count: for a cubemap get_num_array_layers() * 6 in u32.  When the product
\* passes 2^32 a build with overflow checks panics and one without wraps.
layer_count(dds, build) ==
    IF dds.header10.some /\ dds.header10.val.texturecube
    THEN With(TimesSix(get_num_array_layers(dds)), LAMBDA product :
              IF product.hi >= 65536 /\ build = "debug" THEN Panic
              ELSE Ok(U32Of(product.hi % 65536, product.lo)))
    ELSE Ok(get_num_array_layers(dds))

\* the arguments create_bntx evaluates for from_image_data; layer_count is the
\* result of layer_count, and the format is an Option that create_bntx unwraps
create_bntx_args(name, dds, build) ==
    [name |-> name,
     width |-> dds.width,
     height |-> dds.height,
     depth |-> get_depth(dds),
     mipmap_count |-> get_num_mipmap_levels(dds),
     layer_count |-> layer_count(dds, build),
     format |-> dds_image_format(dds)]

create_bntx(name, dds, build) ==
    With(create_bntx_args(name, dds, build), LAMBDA a :
         IF a.layer_count.res # "Ok" THEN Panic
         ELSE IF ~a.format.some THEN Panic
         ELSE from_image_data(a.name, a.width, a.height, a.depth, a.mipmap_count,
                              a.layer_count.val, a.format.val, dds.data))

(***************************************************************************)
(* Inputs.                                                                 *)
(***************************************************************************)
\* a linear buffer of n non-zero bytes
Pattern(seed, n) == [i \in 1..n |-> ((i * 37 + seed * 101) % 251) + 1]

Seeds == {0, 1}

\* the length of the linear data of a surface
LinearLen(width, height, depth, format, mipmap_count, layers) ==
    deswizzled_surface_size(width, height, depth, block_dim(format),
                            bytes_per_pixel(format), mipmap_count, layers)

\* a name of n letters
NameOfLen(n) == [i \in 1..n |-> 97 + (i % 26)]

\* names up to the longest that still leaves room before BRTD_SECTION_START for one
\* mip level, and the next longer one
Names == {NameOfLen(n) : n \in {0, 1, 2, 3, 5, 2917, 2918}}

Args(name, width, height, depth, mipmap_count, layers, format, seed) ==
    [name |-> name, width |-> width, height |-> height, depth |-> depth,
     mipmap_count |-> mipmap_count, layer_count |-> layers, format |-> format,
     data |-> Pattern(seed, LinearLen(width, height, depth, format, mipmap_count, layers))]

\* the calls of from_image_data the model makes: every format; surfaces of one and
\* of several GOBs and block heights, with mip levels, one of them with each seed;
\* layers (a cubemap among them) and depth, the cubemap also block-compressed and
\* of four bytes a pixel; and every name
ImageInputs ==
    {Args(NameOfLen(1), 5, 3, 1, 1, 1, f, 0) : f \in SurfaceFormat}
    \cup {Args(NameOfLen(2), d[1], d[2], 1, m, 1, f, 0) :
            d \in {<<1, 1>>, <<16, 16>>, <<20, 24>>},
            m \in 1..MaxMip,
            f \in {"R8Unorm", "R8G8B8A8Srgb", "BC1Unorm"}}
    \cup {Args(NameOfLen(2), 16, 16, 1, m, 1, "R8G8B8A8Srgb", seed) :
            m \in 1..MaxMip, seed \in Seeds}
    \cup {Args(NameOfLen(3), 8, 8, d, m, l, "R8Unorm", 1) :
            d \in 1..MaxDepth, m \in 1..MaxMip, l \in {1, 2, 6}}
    \cup {Args(NameOfLen(3), 8, 8, 1, m, 6, f, 1) :
            m \in 1..MaxMip, f \in {"BC7Srgb", "R8G8B8A8Unorm"}}
    \cup {Args(n, 1, 1, 1, 1, 1, "R8Unorm", 0) : n \in Names}

\* the BntxFile the files of the model are made from
BaseFile == from_image_data(NameOfLen(2), 5, 3, 1, 1, 1, "R8G8B8A8Srgb",
                            Pattern(0, LinearLen(5, 3, 1, "R8G8B8A8Srgb", 1, 1))).val

\* the dictionary of DICT_SECTION in big-endian byte order
DICT_SECTION_BE ==
    <<95, 68, 73, 67, 0, 0, 0, 1,
      255, 255, 255, 255, 0, 1, 0, 0, 0, 0, 0, 0, 0, 0, 1, 180,
      0, 0, 0, 1, 0, 0, 0, 1, 0, 0, 0, 0, 0, 0, 1, 184>>

Splice(f, off, bytes) ==
    [i \in 1..Len(f) |-> IF i > off /\ i <= off + Len(bytes) THEN bytes[i - off] ELSE f[i]]

\* a well-formed big-endian file
BigEndianFile(b) ==
    Splice(Serialize([b EXCEPT !.header.bom = "BigEndian"], "Big").val,
           START_OF_STR_SECTION + StrSection_get_size(b.header.inner.str_section),
           DICT_SECTION_BE)

\* a file with two names in its string section
TwoNamesFile(b) ==
    [b EXCEPT !.header.inner.str_section.strings =
                  <<[chars |-> NameOfLen(3)], [chars |-> NameOfLen(1)]>>]

\* a relocation section that counts n entries
CountSection(n) == [pointer |-> U64(0), position |-> 0, size |-> 0, index |-> 0, count |-> n]

\* a file whose relocation sections count 2^32 entries between them and that holds none
CountWrapFile(b) ==
    [b EXCEPT !.header.inner.reloc_table =
                  [sections |-> <<CountSection(2147483647), CountSection(2147483647),
                                  CountSection(2)>>,
                   entries |-> <<>>]]

\* a file whose only mip level starts 512 bytes into its image data
LateMipFile(b) ==
    [b EXCEPT !.nx_header.info_ptr.texture.image_data = @ \o @,
              !.nx_header.info_ptr.texture.mipmap_offsets =
                  <<U64(START_OF_TEXTURE_DATA + ImageLen(b))>>]

\* a file whose BRTI stores the block height exponent 6
TallBlockFile(b) == [b EXCEPT !.nx_header.info_ptr.block_height_log2 = 6]

\* a file whose BRTI declares no mip level: its mipmap offset table is empty
NoMipFile(b) ==
    [b EXCEPT !.nx_header.info_ptr.mipmap_count = 0,
              !.nx_header.info_ptr.texture.mipmap_offsets = <<>>]

\* a file whose name is not all UTF-8: a two-byte character, then a byte that starts
\* no character
BadNameFile(b) ==
    [b EXCEPT !.header.inner.str_section.strings = <<[chars |-> <<195, 169, 255>>]>>]

FilesOf(b) ==
    {BigEndianFile(b)} \cup
    {Serialize(v, "Little").val :
        v \in {b, TwoNamesFile(b), CountWrapFile(b), LateMipFile(b), TallBlockFile(b),
               NoMipFile(b), BadNameFile(b)}}

\* the written BaseFile with the node count 2^32 - 1 in its dictionary
DictWrapFile(f) ==
    Splice(f, START_OF_STR_SECTION + StrSection_get_size(BaseFile.header.inner.str_section) + 4,
           <<255, 255, 255, 255>>)

\* the written BaseFile damaged: its first byte changed, cut off at the start of its
\* image data, and with a format code no SurfaceFormat has
DamagedFiles(f) ==
    { Splice(f, 0, <<0>>),
      SubSeq(f, 1, START_OF_TEXTURE_DATA),
      Splice(f, BrtiBase(BaseFile) + 28, <<255, 255, 0, 0>>) }

\* the written BaseFile with an image_size of 0 and its mip level at the offset of
\* the 8 bytes given
FarMipFile(f, offset) ==
    Splice(Splice(f, BrtiBase(BaseFile) + 80, <<0, 0, 0, 0>>),
           BrtiBase(BaseFile) + SIZE_OF_BRTI + RESERVED_SIZE, offset)


\* the files read; the mip offsets of the FarMipFiles are 2^44 - 4096, 2^44 - 4095
\* and 2^63
Files ==
    FilesOf(BaseFile) \cup DamagedFiles(Serialize(BaseFile, "Little").val)
        \cup {DictWrapFile(Serialize(BaseFile, "Little").val)}
        \cup {FarMipFile(Serialize(BaseFile, "Little").val, offset) :
                offset \in { <<0, 240, 255, 255, 255, 15, 0, 0>>,
                             <<1, 240, 255, 255, 255, 15, 0, 0>>,
                             <<0, 0, 0, 0, 0, 0, 0, 128>> }}

Builds == {"debug", "release"}

\* What holds the bytes read, and the largest position a seek on it reaches.  A
\* Cursor over bytes in memory seeks to any u64 position.  The File of from_file
\* seeks as far as its file system lets a file grow, which the machine decides and
\* not the program: 2^44 - 4096 on ext4 with blocks of 4 KiB, and nowhere more than
\* 2^63 - 1, the largest signed offset.
Streams ==
    { [kind |-> "Cursor", max_offset |-> [hi |-> -1, lo |-> -1]],
      [kind |-> "File", max_offset |-> [hi |-> 4095, lo |-> -4096]],
      [kind |-> "File", max_offset |-> [hi |-> 2147483647, lo |-> -1]] }

\* the largest array size of a cubemap whose six faces each still count in a u32, and
\* the next one
MaxCubeArray == 715827882

\* the DXGI headers of the DDS files opened: none, that of a cubemap, that of a cubemap
\* array with more faces than a u32 counts, and three more
Header10Inputs ==
    << None,
       Some([dxgi_format |-> "BC1_UNorm", texturecube |-> TRUE, array_size |-> 1]),
       Some([dxgi_format |-> "BC1_UNorm", texturecube |-> TRUE,
             array_size |-> MaxCubeArray + 1]),
       Some([dxgi_format |-> "BC7_UNorm", texturecube |-> FALSE, array_size |-> 1]),
       Some([dxgi_format |-> "R8G8B8A8_UNorm", texturecube |-> FALSE, array_size |-> 1]),
       Some([dxgi_format |-> "R32_Float", texturecube |-> FALSE, array_size |-> 1]) >>

\* their D3D formats and their FourCCs
D3dInputs == << None, Some("DXT1"), Some("DXT3"), Some("A8R8G8B8") >>
FourccInputs == << None, Some("DXT5"), Some("ATI2"), Some("DX10") >>

\* a DDS file as opened by the caller, for a 5 x 3 surface
DdsInput(h, d, c) ==
    [width |-> 5, height |-> 3, depth |-> None, mip_map_count |-> None,
     header10 |-> Header10Inputs[h], d3d_format |-> D3dInputs[d], fourcc |-> FourccInputs[c],
     data |-> Pattern(0, 32)]

(***************************************************************************)
(* The state machine: a caller builds or loads a BntxFile, and writes it,   *)
(* reads the written bytes back and writes again; or takes its linear data; *)
(* or converts it to DDS and back.                                          *)
(***************************************************************************)
VARIABLES
    origin,     \* how the BntxFile came about: "none", "image", "file", "dds", "format"
    args,       \* the arguments of from_image_data, or the file bytes loaded
    bntx,       \* the result of from_image_data or of the Reader
    written,    \* the result of write(bntx)
    reread,     \* the result of reading the written bytes
    rewritten,  \* the result of writing what was read
    linear,     \* the result of deswizzled_data
    params,     \* the NewDxgiParams create_dds passed to Dds::new_dxgi
    dds,        \* the result of create_dds, or the DDS opened
    passed,     \* the arguments create_bntx passed to from_image_data
    rebuilt,    \* the result of create_bntx
    probe       \* a format, its DXGI format and the format that maps back to

vars == <<origin, args, bntx, written, reread, rewritten, linear, params, dds, passed,
          rebuilt, probe>>

NoRes == [res |-> "None", val |-> <<>>]
NoArgs == [name |-> <<>>]

Init ==
    /\ origin = "none"
    /\ args = NoArgs
    /\ bntx = NoRes
    /\ written = NoRes
    /\ reread = NoRes
    /\ rewritten = NoRes
    /\ linear = NoRes
    /\ params = NoArgs
    /\ dds = NoRes
    /\ passed = NoArgs
    /\ rebuilt = NoRes
    /\ probe = NoArgs

FromImageData(a) ==
    /\ origin = "none"
    /\ origin' = "image"
    /\ args' = a
    /\ bntx' = from_image_data(a.name, a.width, a.height, a.depth, a.mipmap_count,
                               a.layer_count, a.format, a.data)
    /\ UNCHANGED <<written, reread, rewritten, linear, params, dds, passed, rebuilt, probe>>

Load(f, stream, build) ==
    /\ origin = "none"
    /\ origin' = "file"
    /\ args' = [name |-> <<>>, file |-> f]
    /\ bntx' = read(f, stream, build)
    /\ UNCHANGED <<written, reread, rewritten, linear, params, dds, passed, rebuilt, probe>>

Write ==
    /\ bntx.res = "Ok"
    /\ written = NoRes
    /\ written' = write(bntx.val)
    /\ UNCHANGED <<origin, args, bntx, reread, rewritten, linear, params, dds, passed, rebuilt,
                   probe>>

ReadBack(stream, build) ==
    /\ written.res = "Ok"
    /\ reread = NoRes
    /\ reread' = read(written.val, stream, build)
    /\ UNCHANGED <<origin, args, bntx, written, rewritten, linear, params, dds, passed, rebuilt,
                   probe>>

WriteAgain ==
    /\ reread.res = "Ok"
    /\ rewritten = NoRes
    /\ rewritten' = write(reread.val)
    /\ UNCHANGED <<origin, args, bntx, written, reread, linear, params, dds, passed, rebuilt,
                   probe>>

DeswizzledData ==
    /\ bntx.res = "Ok"
    /\ linear = NoRes
    /\ linear' = deswizzled_data(bntx.val)
    /\ UNCHANGED <<origin, args, bntx, written, reread, rewritten, params, dds, passed, rebuilt,
                   probe>>

CreateDds ==
    /\ bntx.res = "Ok"
    /\ dds = NoRes
    /\ params' = new_dxgi_params(bntx.val)
    /\ dds' = create_dds(bntx.val)
    /\ UNCHANGED <<origin, args, bntx, written, reread, rewritten, linear, passed, rebuilt,
                   probe>>

OpenDds(d) ==
    /\ origin = "none"
    /\ origin' = "dds"
    /\ dds' = Ok(d)
    /\ UNCHANGED <<args, bntx, written, reread, rewritten, linear, params, passed, rebuilt, probe>>

CreateBntx(build) ==
    /\ dds.res = "Ok"
    /\ rebuilt = NoRes
    /\ passed' = create_bntx_args(args.name, dds.val, build)
    /\ rebuilt' = create_bntx(args.name, dds.val, build)
    /\ UNCHANGED <<origin, args, bntx, written, reread, rewritten, linear, params, dds, probe>>

ConvertFormat(f) ==
    /\ origin = "none"
    /\ origin' = "format"
    /\ probe' = [format |-> f, dxgi |-> DxgiFormat_from(f),
                 back |-> image_format_from_dxgi(DxgiFormat_from(f))]
    /\ UNCHANGED <<args, bntx, written, reread, rewritten, linear, params, dds, passed, rebuilt>>

Next ==
    \/ \E a \in ImageInputs : FromImageData(a)
    \/ \E f \in Files, stream \in Streams, build \in Builds : Load(f, stream, build)
    \/ Write
    \/ \E stream \in Streams, build \in Builds : ReadBack(stream, build)
    \/ WriteAgain
    \/ DeswizzledData
    \/ CreateDds
    \/ \E h \in DOMAIN Header10Inputs, d \in DOMAIN D3dInputs, c \in DOMAIN FourccInputs :
           OpenDds(DdsInput(h, d, c))
    \/ \E build \in Builds : CreateBntx(build)
    \/ \E f \in SurfaceFormat : ConvertFormat(f)

Spec == Init /\ [][Next]_vars

(***************************************************************************)
(* The claims.                                                             *)
(***************************************************************************)
\* the BRTI of the BntxFile of the state
Info == bntx.val.nx_header.info_ptr

\* C1: parse-write identity.  For every BntxFile on which write succeeds, built by
\* from_image_data or produced by the Reader, with either BOM, reading the written
\* bytes X succeeds, and writing what was read gives X again byte for byte.
C1_ParseWriteIdentity ==
    (written.res = "Ok" /\ reread # NoRes)
        => /\ reread.res = "Ok"
           /\ (rewritten # NoRes => rewritten = written)

\* C1, the failing case: the Reader produced a BntxFile with the big-endian BOM, write
\* succeeded on it, and reading the written bytes fails
C1_BigEndianNotReadBack ==
    /\ origin = "file"
    /\ bntx.res = "Ok"
    /\ bntx.val.header.bom = "BigEndian"
    /\ written.res = "Ok"
    /\ reread.res = "Err"

\* C2: deswizzle-swizzle identity at the BntxFile level.  from_image_data on a linear
\* buffer followed by deswizzled_data returns the buffer; the BntxFile keeps the
\* dimensions, format, mip count and layer count it was built with, and the block
\* height 2^block_height_log2 is the block height the data was swizzled with.
C2_DeswizzleSwizzleIdentity ==
    (origin = "image" /\ bntx.res = "Ok" /\ linear # NoRes)
        => /\ linear = Ok(args.data)
           /\ Info.width = args.width
           /\ Info.height = args.height
           /\ Info.depth = args.depth
           /\ Info.format = args.format
           /\ Info.mipmap_count = args.mipmap_count
           /\ Info.layer_count = args.layer_count
           /\ Pow2(Info.block_height_log2)
                = block_height_mip0(div_round_up(args.height, block_dim(args.format).height))

\* C2, its case: a surface with mip levels and a block height above one came back
C2_MippedSurfaceCameBack ==
    /\ origin = "image"
    /\ args.mipmap_count >= 2
    /\ bntx.res = "Ok"
    /\ Info.block_height_log2 >= 1
    /\ linear.res = "Ok"
    /\ linear.val = args.data
    /\ Len(args.data) > 512

\* C3: format round trip.  For every SurfaceFormat f, image_format_from_dxgi of the
\* DXGI format of f is Some(f).
C3_FormatRoundTrip ==
    probe # NoArgs => probe.back = Some(probe.format)

\* C3, the failing case: R8G8B8A8Unorm maps to R8G8B8A8_UNorm, which maps to nothing
C3_Rgba8UnormNotBack ==
    /\ probe # NoArgs
    /\ probe.format = "R8G8B8A8Unorm"
    /\ probe.dxgi = "R8G8B8A8_UNorm"
    /\ probe.back = None

\* the u32 that is six times n, for n from 0 to MaxCubeArray
SixTimes(n) == IF n <= MaxCubeArray \div 2 THEN n * 6 ELSE ((n - MaxCubeArray) * 6) - 4

\* C4: cubemap layer round trip.  For a BntxFile of 6 layers create_dds gives a DDS
\* with the cube flag whose array layers read back as 1, and create_bntx on it passes
\* 6 layers and rebuilds a BntxFile of 6 layers; create_bntx passes the array layers
\* times 6 when the cube flag is set, as long as that product is a u32, and the
\* array layers otherwise.
C4_CubemapLayerRoundTrip ==
    /\ (origin = "image" /\ bntx.res = "Ok" /\ args.layer_count = 6 /\ dds.res = "Ok")
         => /\ dds.val.header10.some
            /\ dds.val.header10.val.texturecube
            /\ get_num_array_layers(dds.val) = 1
            /\ rebuilt # NoRes
                 => /\ passed.layer_count.res = "Ok"
                    /\ passed.layer_count.val = 6
                    /\ rebuilt.res = "Ok"
                    /\ rebuilt.val.nx_header.info_ptr.layer_count = 6
    /\ (dds.res = "Ok" /\ rebuilt # NoRes)
         => IF dds.val.header10.some /\ dds.val.header10.val.texturecube
            THEN get_num_array_layers(dds.val) \in 0..MaxCubeArray
                   => /\ passed.layer_count.res = "Ok"
                      /\ passed.layer_count.val = SixTimes(get_num_array_layers(dds.val))
            ELSE /\ passed.layer_count.res = "Ok"
                 /\ passed.layer_count.val = get_num_array_layers(dds.val)

\* C4, the failing case: a BntxFile of 6 layers of R8G8B8A8Unorm went to a DDS with
\* the cube flag, create_bntx passes 6 layers and finds no format for it, and aborts
C4_Rgba8CubeNotBack ==
    /\ origin = "image"
    /\ args.layer_count = 6
    /\ args.format = "R8G8B8A8Unorm"
    /\ dds.res = "Ok"
    /\ dds.val.header10.val.texturecube
    /\ rebuilt.res = "Panic"
    /\ passed.layer_count.res = "Ok"
    /\ passed.layer_count.val = 6
    /\ ~passed.format.some

\* C5: create_dds passes depth, mipmap_levels and array_layers only when the BNTX
\* value is above 1, and as absent otherwise.
C5_PassedOnlyAboveOne ==
    params # NoArgs
        => /\ params.depth = IF Info.depth > 1 THEN Some(Info.depth) ELSE None
           /\ params.mipmap_levels =
                IF Info.mipmap_count > 1 THEN Some(Info.mipmap_count) ELSE None
           /\ params.array_layers =
                IF Info.layer_count > 1 THEN Some(Info.layer_count) ELSE None

\* C5, the failing case: one mip level and depth 1 are passed as Some(1)
C5_OnePassedAsPresent ==
    /\ params # NoArgs
    /\ Info.mipmap_count = 1
    /\ Info.depth = 1
    /\ params.mipmap_levels = Some(1)
    /\ params.depth = Some(1)

\* the format each family of a DDS maps to
DxgiChoice(d) ==
    IF d.header10.some THEN image_format_from_dxgi(d.header10.val.dxgi_format) ELSE None
D3dChoice(d) == IF d.d3d_format.some THEN image_format_from_d3d(d.d3d_format.val) ELSE None
FourccChoice(d) == IF d.fourcc.some THEN image_format_from_fourcc(d.fourcc.val) ELSE None

\* C6: create_bntx takes the format of the first of DXGI, D3D and FourCC that maps to
\* a SurfaceFormat, and when none does the call returns an error: it does not abort.
C6_FormatPrecedenceOrError ==
    (origin = "dds" /\ rebuilt # NoRes)
        => /\ DxgiChoice(dds.val).some => passed.format = DxgiChoice(dds.val)
           /\ (~DxgiChoice(dds.val).some /\ D3dChoice(dds.val).some)
                => passed.format = D3dChoice(dds.val)
           /\ (~DxgiChoice(dds.val).some /\ ~D3dChoice(dds.val).some
                 /\ FourccChoice(dds.val).some)
                => passed.format = FourccChoice(dds.val)
           /\ (~DxgiChoice(dds.val).some /\ ~D3dChoice(dds.val).some
                 /\ ~FourccChoice(dds.val).some)
                => rebuilt.res = "Err"

\* C6, the failing case: no family maps to a format and create_bntx aborts
C6_NoFormatAborts ==
    /\ origin = "dds"
    /\ rebuilt.res = "Panic"
    /\ dds.val.header10.some
    /\ ~passed.format.some

\* C7 as amended: the constant START_OF_STR_SECTION is the sum of the sizes of the
\* two headers, the memory pool and the data pointer, which is 0x1A0 (416), and
\* BRTD_SECTION_START is 0xFF0 (4080) and START_OF_TEXTURE_DATA 0x1000 (4096); in
\* every file the Writer produces the _STR magic stands at 0x1A0, the BRTD magic at
\* 0xFF0 and the image data at 0x1000.
C7_LayoutConstants ==
    /\ START_OF_STR_SECTION
         = BNTX_HEADER_SIZE + NX_HEADER_SIZE + MEM_POOL_SIZE + DATA_PTR_SIZE
    /\ START_OF_STR_SECTION = 416
    /\ BRTD_SECTION_START = 4080
    /\ START_OF_TEXTURE_DATA = 4096
    /\ written.res = "Ok"
         => /\ SubSeq(written.val, 416 + 1, 416 + 4) = MAGIC_STR
            /\ SubSeq(written.val, 4080 + 1, 4080 + 4) = MAGIC_BRTD
            /\ SubSeq(written.val, 4096 + 1, 4096 + Len(Info.texture.image_data))
                 = Info.texture.image_data

\* C7, its case: a file is written for a BntxFile with a name of several characters
C7_FileWritten ==
    /\ written.res = "Ok"
    /\ Len(bntx.val.header.inner.str_section.strings) >= 1
    /\ Len(bntx.val.header.inner.str_section.strings[1].chars) >= 3
    /\ Len(written.val) > 4096

\* C7 as stated: START_OF_STR_SECTION is 0x170 (368), where the _STR magic stands
C7_LayoutConstants_AsStated ==
    written.res = "Ok"
        => /\ START_OF_STR_SECTION = 368
           /\ BRTD_SECTION_START = 4080
           /\ START_OF_TEXTURE_DATA = 4096
           /\ SubSeq(written.val, 368 + 1, 368 + 4) = MAGIC_STR
           /\ SubSeq(written.val, 4080 + 1, 4080 + 4) = MAGIC_BRTD

\* C8: for every BntxFile passed to write, whatever its name and its mip count, the
\* padding after the mipmap offset table has a length that is not negative: write
\* succeeds, the BRTD magic stands at 0xFF0 and the first image byte at 0x1000.
C8_PaddingNotNegative ==
    written # NoRes
        => /\ written.res = "Ok"
           /\ SubSeq(written.val, 4080 + 1, 4080 + 4) = MAGIC_BRTD
           /\ Sub(written.val, 4096, Min(1, Len(Info.texture.image_data)))
                = SubSeq(Info.texture.image_data, 1, Min(1, Len(Info.texture.image_data)))

\* C8, the failing case: with a name of 2918 bytes and one mip level the table ends
\* past 0xFF0 and write aborts
C8_LongNameAborts ==
    /\ origin = "image"
    /\ Len(args.name) = 2918
    /\ args.mipmap_count = 1
    /\ bntx.res = "Ok"
    /\ written.res = "Panic"

\* the size of mip level i (from 0) of the surface from_image_data was called for
SizeOfMip(i) ==
    swizzled_mip_size(
        div_round_up(Max(1, args.width \div Pow2(i)), block_dim(args.format).width),
        div_round_up(Max(1, args.height \div Pow2(i)), block_dim(args.format).height),
        div_round_up(Max(1, args.depth \div Pow2(i)), block_dim(args.format).depth),
        mip_block_height(
            div_round_up(Max(1, args.height \div Pow2(i)), block_dim(args.format).height),
            block_height_mip0(div_round_up(args.height, block_dim(args.format).height))),
        bytes_per_pixel(args.format))

\* mipmap offset i (from 1) of the BntxFile of the state
MipOffset(i) == At(Info.texture.mipmap_offsets[i])

\* C9: mip offsets.  A BntxFile built by from_image_data has mipmap_count offsets,
\* the first is START_OF_TEXTURE_DATA (0x1000), each next one lies the swizzled size
\* of the mip level before it further on, and the offsets do not decrease.
C9_MipOffsets ==
    (origin = "image" /\ bntx.res = "Ok")
        => /\ Len(Info.texture.mipmap_offsets) = args.mipmap_count
           /\ \A i \in 1..Len(Info.texture.mipmap_offsets) : MipOffset(i) < Far
           /\ MipOffset(1) = 4096
           /\ \A i \in 1..(Len(Info.texture.mipmap_offsets) - 1) :
                /\ MipOffset(i + 1) - MipOffset(i) = SizeOfMip(i - 1)
                /\ MipOffset(i) <= MipOffset(i + 1)

\* C9, its case: three mip levels, the second smaller than the first and swizzled
\* with a lower block height
C9_ThreeLevels ==
    /\ origin = "image"
    /\ bntx.res = "Ok"
    /\ args.mipmap_count = 3
    /\ Len(Info.texture.mipmap_offsets) = 3
    /\ Info.block_height_log2 = 2
    /\ MipOffset(3) - MipOffset(2) < MipOffset(2) - MipOffset(1)

\* the sum of the sections' counts is the number of entries
CountsMatch(r) ==
    r.res = "Ok"
        => CountSum(r.val.header.inner.reloc_table.sections)
             = [hi |-> Len(r.val.header.inner.reloc_table.entries) \div 65536,
                lo |-> Len(r.val.header.inner.reloc_table.entries) % 65536]

\* C10: relocation count equality.  In every BntxFile, built by from_image_data or
\* produced by the Reader, the counts of the sections of the relocation table add up
\* to the number of its entries; from_image_data makes two sections (index 0 count 4,
\* index 4 count 1) and five entries.
C10_RelocationCountEquality ==
    /\ CountsMatch(bntx)
    /\ CountsMatch(reread)
    /\ CountsMatch(rebuilt)
    /\ (origin = "image" /\ bntx.res = "Ok")
         => /\ Len(bntx.val.header.inner.reloc_table.sections) = 2
            /\ bntx.val.header.inner.reloc_table.sections[1].index = 0
            /\ bntx.val.header.inner.reloc_table.sections[1].count = 4
            /\ bntx.val.header.inner.reloc_table.sections[2].index = 4
            /\ bntx.val.header.inner.reloc_table.sections[2].count = 1
            /\ Len(bntx.val.header.inner.reloc_table.entries) = 5

\* C10, the failing case: the Reader, in a build without overflow checks, produced a
\* BntxFile whose sections count 2^32 entries and that has none
C10_CountsWrapped ==
    /\ origin = "file"
    /\ bntx.res = "Ok"
    /\ CountSum(bntx.val.header.inner.reloc_table.sections).hi >= 65536
    /\ Len(bntx.val.header.inner.reloc_table.entries) = 0

\* C11: in every BntxFile, the ones from_image_data builds among them, a depth above
\* 1 goes with the texture dimension 3D, and a layer count of 6 with the texture
\* view dimension Cube.
C11_DimensionFollowsGeometry ==
    bntx.res = "Ok"
        => /\ (Info.depth > 1 => Info.texture_dimension = "D3")
           /\ (Info.layer_count = 6 => Info.texture_view_dimension = "Cube")

\* C11, the failing case: from_image_data built a BntxFile of depth 2 and 6 layers
\* whose texture dimension and texture view dimension are both 2D
C11_VolumeCubeStored2D ==
    /\ origin = "image"
    /\ bntx.res = "Ok"
    /\ Info.depth > 1
    /\ Info.layer_count = 6
    /\ Info.texture_dimension = "D2"
    /\ Info.texture_view_dimension = "D2"

\* C12: in every BntxFile, built by from_image_data or accepted by the Reader,
\* block_height_log2 is in 0..5, so deswizzled_data forms the block height
\* 2^block_height_log2, one of 1, 2, 4, 8, 16, 32, and returns the data or a
\* SwizzleError, never aborting.
C12_BlockHeightInRange ==
    bntx.res = "Ok"
        => /\ Info.block_height_log2 \in 0..5
           /\ block_height_from_log2(Info.block_height_log2).some
           /\ block_height_from_log2(Info.block_height_log2).val \in {1, 2, 4, 8, 16, 32}
           /\ linear.res # "Panic"

\* C12, the failing case: the Reader accepted a file whose BRTI stores the exponent
\* 6, and deswizzled_data aborted on it
C12_ExponentSixAborts ==
    /\ origin = "file"
    /\ bntx.res = "Ok"
    /\ Info.block_height_log2 = 6
    /\ linear.res = "Panic"

\* the seed scenario: from_image_data on a 1 x 1 R8Unorm surface of one mip level
\* and one layer
SeedScenario ==
    /\ origin = "image"
    /\ args.width = 1 /\ args.height = 1 /\ args.depth = 1
    /\ args.mipmap_count = 1 /\ args.layer_count = 1
    /\ args.format = "R8Unorm"

\* C13: in the seed scenario from_image_data yields bpp 1, block height 1 and
\* block_height_log2 0, the mip offset 0x1000 and an image_size of 512, the length
\* of the swizzled data (one GOB); the written file is 0x1200 bytes and the
\* relocation table long.
C13_SeedScenarioSizes ==
    SeedScenario
        => /\ bntx.res = "Ok"
           /\ bytes_per_pixel(args.format) = 1
           /\ block_height_mip0(div_round_up(args.height, block_dim(args.format).height)) = 1
           /\ Info.block_height_log2 = 0
           /\ Info.image_size = 512
           /\ Info.image_size = Len(Info.texture.image_data)
           /\ Info.image_size = swizzled_mip_size(1, 1, 1, 1, 1)
           /\ Info.texture.mipmap_offsets = <<U64(4096)>>
           /\ (written.res = "Ok"
                 => Len(written.val)
                      = 4608 + RelocationTable_get_size(bntx.val.header.inner.reloc_table))

\* C13, the case: the BntxFile of the seed scenario was written
C13_SeedWritten ==
    /\ SeedScenario
    /\ written.res = "Ok"
    /\ Len(written.val) = 4712

\* C13 as stated: in the seed scenario image_size is 1 and the written file is
\* 0x1010 bytes and the relocation table long
C13_SeedScenarioSizes_AsStated ==
    (SeedScenario /\ written.res = "Ok")
        => /\ Info.image_size = 1
           /\ Len(written.val)
                = 4112 + RelocationTable_get_size(bntx.val.header.inner.reloc_table)

\* the bytes written, and the little-endian integer of n bytes at offset off of them,
\* one of 8 bytes as the offset it is
Out == written.val
OutAt(off, n) ==
    IF n = 8 THEN At(Dec(Out, off, 8, "Little")) ELSE Dec(Out, off, n, "Little")

\* the magic m stands at offset off of the bytes written
MagicAt(off, m) == Can(Out, off, 4) /\ Sub(Out, off, 4) = m

\* C14: pointer consistency of the Writer.  In every file written, each pointer is
\* the offset at which its pointee was emitted: the header's 16-bit string section
\* pointer is the offset of the _STR magic; the NX header's info pointer is
\* HEADER_SIZE + MEM_POOL_SIZE, the offset of the data pointer slot, and the u64
\* there is the offset of the BRTI magic; the NX dictionary pointer is
\* START_OF_STR_SECTION + StrSection.get_size, the offset of the _DIC magic, so
\* get_size is the number of bytes the string section occupies; and the NX BRTD
\* pointer is the offset of the BRTD magic.
C14_PointersMeetPointees ==
    written.res = "Ok"
        => LET str_section == bntx.val.header.inner.str_section
           IN  /\ MagicAt(OutAt(22, 2), MAGIC_STR)
               /\ OutAt(40, 8) = HEADER_SIZE + MEM_POOL_SIZE
               /\ OutAt(40, 8) + DATA_PTR_SIZE = OutAt(22, 2)
               /\ MagicAt(OutAt(OutAt(40, 8), 8), MAGIC_BRTI)
               /\ OutAt(56, 8) = START_OF_STR_SECTION + StrSection_get_size(str_section)
               /\ MagicAt(OutAt(56, 8), MAGIC_DIC)
               /\ StrSection_get_size(str_section)
                    = Len(StrSection_write(str_section, START_OF_STR_SECTION, "Little"))
               /\ OutAt(OutAt(40, 8), 8)
                    = OutAt(56, 8) + Len(DictSection_write(bntx.val.nx_header.dict, "Little"))
               /\ MagicAt(OutAt(48, 8), MAGIC_BRTD)

\* C14, the case: a file was written from a BntxFile with two names in its string
\* section, and its dictionary lies past that of a file with one short name
C14_TwoNamesWritten ==
    /\ written.res = "Ok"
    /\ Len(bntx.val.header.inner.str_section.strings) = 2
    /\ OutAt(56, 8) > START_OF_STR_SECTION + 32
    /\ MagicAt(OutAt(56, 8), MAGIC_DIC)

\* C15: relocation table placement and file size.  In every file written the
\* header's relocation table offset, START_OF_TEXTURE_DATA + len(image_data), is the
\* offset of the _RLT magic and the position written inside the table, and the
\* header's end offset, that start plus 16 + 0x18 * |sections| + 8 * |entries|, is
\* the number of bytes written.
C15_RelocationTablePlacement ==
    written.res = "Ok"
        => LET table == bntx.val.header.inner.reloc_table
               start == OutAt(24, 4)
           IN  /\ start = START_OF_TEXTURE_DATA + Len(Info.texture.image_data)
               /\ MagicAt(start, MAGIC_RLT)
               /\ OutAt(start + 4, 4) = start
               /\ OutAt(start + 8, 4) = Len(table.sections)
               /\ RelocationTable_get_size(table)
                    = 16 + (24 * Len(table.sections)) + (8 * Len(table.entries))
               /\ OutAt(28, 4) = start + RelocationTable_get_size(table)
               /\ OutAt(28, 4) = Len(Out)

\* C15, the case: a file with the table of from_image_data, two sections and five
\* entries, was written after several mip levels of image data
C15_TableWrittenAfterMips ==
    /\ written.res = "Ok"
    /\ Len(bntx.val.header.inner.reloc_table.entries) = 5
    /\ Info.mipmap_count = 3
    /\ OutAt(24, 4) > START_OF_TEXTURE_DATA + 512
    /\ OutAt(28, 4) = OutAt(24, 4) + 104

\* the offset of the BRTI magic in the bytes written, and tail value k of the BRTI
BrtiAt == OutAt(OutAt(40, 8), 8)
TailAt(k) == OutAt(BrtiAt + 96 + (8 * (k - 1)), 8)

\* the offset at which the Writer emitted the first u64 of the mipmap offset table
TableAt ==
    Len(WriteHead(bntx.val, "Little")) - (8 * Len(Info.texture.mipmap_offsets))

\* C16: of the eight u64 values that end the BrtiSection the third,
\* START_OF_STR_SECTION + str.size + dict.size + SIZE_OF_BRTI + 0x200, is the pointer
\* to the mipmap offset table: it is the offset at which the Writer emits the first
\* u64 of the table.  The fifth, the same sum without the 0x200, is the offset of
\* the 512 bytes the Writer emits between the BrtiSection and the table.
C16_TablePointerIsThird ==
    written.res = "Ok"
        => /\ TailAt(3) = BrtiBase(bntx.val) + SIZE_OF_BRTI + 512
           /\ TailAt(3) = TableAt
           /\ Sub(Out, TableAt, 8 * Len(Info.texture.mipmap_offsets))
                = EncAll(Info.texture.mipmap_offsets, 8, "Little")
           /\ TailAt(5) = BrtiBase(bntx.val) + SIZE_OF_BRTI
           /\ TailAt(5) = BrtiAt + SIZE_OF_BRTI
           /\ TailAt(5) + 512 = TableAt
           /\ Sub(Out, TailAt(5), 512) = Zeros(512)

\* C16, the case: a file with a table of three mip offsets was written, the first
\* of them standing where the third tail value points
C16_ThreeOffsetsWritten ==
    /\ written.res = "Ok"
    /\ Len(Info.texture.mipmap_offsets) = 3
    /\ OutAt(TailAt(3), 8) = START_OF_TEXTURE_DATA
    /\ OutAt(TailAt(3) + 8, 8) > START_OF_TEXTURE_DATA

\* C16 as stated: the fifth tail value is the offset of the first u64 of the mipmap
\* offset table
C16_TablePointerIsFifth ==
    written.res = "Ok" => TailAt(5) = TableAt

\* the mipmap_count the BRTI of the little-endian file loaded declares
DeclaredMips ==
    Dec(args.file,
        At(Dec(args.file, At(Dec(args.file, 40, 8, "Little")), 8, "Little")) + 22, 2,
        "Little")

\* C17: the Reader is total.  For every byte stream it ends with a BntxFile or an
\* error value and never aborts; a stream whose BRTI declares mipmap_count 0 gives an
\* error value, as do a bad magic, an enum code out of range and truncated input.
C17_ReaderTotal ==
    /\ reread.res # "Panic"
    /\ origin = "file"
         => /\ bntx.res \in {"Ok", "Err"}
            /\ args.file \in DamagedFiles(Serialize(BaseFile, "Little").val)
                 => bntx.res = "Err"
            /\ (Sub(args.file, 12, 2) = <<255, 254>> /\ DeclaredMips = 0)
                 => bntx.res = "Err"

\* C17, the failing case: the Reader aborted on a well-formed file whose BRTI
\* declares no mip level
C17_NoMipAborts ==
    /\ origin = "file"
    /\ Len(args.file) > START_OF_TEXTURE_DATA
    /\ Sub(args.file, 12, 2) = <<255, 254>>
    /\ DeclaredMips = 0
    /\ bntx.res = "Panic"

\* the relocation entries of the BntxFile of the state, and the size of its string
\* section and of its dictionary
Entries == bntx.val.header.inner.reloc_table.entries
StrSize == StrSection_get_size(bntx.val.header.inner.str_section)
DictSize == DictSection_get_size(bntx.val.nx_header.dict)

\* the padding counts of entries 2 and 5 by their formulas over the section sizes
PaddingFormula2 == (START_OF_STR_SECTION + StrSize + DictSize + 128 - HEADER_SIZE) \div 8
PaddingFormula5 ==
    ((START_OF_STR_SECTION + StrSize + DictSize + SIZE_OF_BRTI + 512)
        - (BNTX_HEADER_SIZE + 24)) \div 8

\* C18: for every name from_image_data accepts, the padding_count stored in entries
\* 2 and 5 of the relocation table is the value of its formula over the section
\* sizes, which is below 256 and is not reduced modulo 2^8; and the u32 positions
\* and sizes of the table are not reduced modulo 2^32.
C18_PaddingCountNotTruncated ==
    (origin = "image" /\ bntx.res = "Ok")
        => /\ PaddingFormula2 < 256
           /\ Entries[2].padding_count = PaddingFormula2
           /\ PaddingFormula5 < 256
           /\ Entries[5].padding_count = PaddingFormula5
           /\ Entries[3].position = START_OF_STR_SECTION + StrSize + 16
           /\ Entries[4].position = START_OF_STR_SECTION + StrSize + DictSize + 96
           /\ \A i \in 1..5 : Entries[i].position \div 65536 < 65536
           /\ \A i \in 1..2 :
                 bntx.val.header.inner.reloc_table.sections[i].size \div 65536 < 65536

\* C18, the failing case: from_image_data accepted a name of 2917 bytes, write
\* succeeds on its BntxFile, and the padding counts stored in entries 2 and 5 are
\* their formulas' values 432 and 502 reduced modulo 256
C18_LongNameTruncated ==
    /\ origin = "image"
    /\ bntx.res = "Ok"
    /\ Len(args.name) = 2917
    /\ written.res = "Ok"
    /\ PaddingFormula2 = 432
    /\ Entries[2].padding_count = 176
    /\ PaddingFormula5 = 502
    /\ Entries[5].padding_count = 246


==============================================================================
